---- MODULE Spec2Model ----
(***************************************************************************)
(* Model of the Hama proxy gateway (src/src/server.ts).                    *)
(*                                                                         *)
(* The gateway's state is split in groups, one per component:              *)
(*   - the backend connection registry and the routing layer               *)
(*     (EnhancedHamaManager.hamaConnections, connectAllServers,            *)
(*     callTool / getPrompt / readResource, disconnectAll);                *)
(*   - the event log (InMemoryEventStore);                                 *)
(*   - the response normalization at the end of callTool;                  *)
(*   - the schema-bypass fallback (callToolDirectly) on one connection;    *)
(*   - the frontend sessions of both transports (createSSEMiddleware,      *)
(*     createStreamMiddleware and the session phases of disconnectAll).    *)
(* Each group has a specification of its own that holds the other groups   *)
(* at their initial value.                                                 *)
(***************************************************************************)
EXTENDS Integers, Sequences, FiniteSets, TLC

VARIABLES
    \* ---- backend connection manager / routing (Spec) ----
    willFail,         \* environment: the backends whose connect attempt fails
    backendCaps,      \* environment: what each backend's listings return
    connPc,           \* per configured backend: position of its connectToServer task
    connectAllPc,     \* position of connectAllServers
    hamaConnections,  \* the registry, a Map in insertion order
    discPc,           \* position of disconnectAll's connection phase
    closePending,     \* connections whose client.close() has not settled yet
    lastCall,         \* outcome of the last callTool / getPrompt / readResource
    refreshing,       \* backends whose refreshServerData awaits its three listings
    refreshCount,     \* how many capability-change notifications have arrived
    latestRefresh,    \* per backend, history: its most recently started refresh
    peerDown,         \* environment: backends whose process has died since connecting
    \* ---- InMemoryEventStore (SpecStore) ----
    clock,            \* Date.now()
    events,           \* the Map eventId -> {message, streamId}
    recorded,         \* history: the storeEvent calls, in the order they were made
    replayOut,        \* the last replayEventsAfter call: its argument, what it sent, its result
    \* ---- response normalization (SpecNorm) ----
    normIn,           \* the backend's reply handed to the normalization block of callTool
    normOuts,         \* what the block returned, and what it returned when fed its own result
    \* ---- schema-bypass fallback on one connection (SpecBypass) ----
    nowMs,            \* Date.now()
    transport,        \* (client as any)._transport: "stdio", "nosend" (an object without
                      \* send), "absent" (undefined, after the channel closed)
    onmessage,        \* transport.onmessage: 0 is the client's own handler, r > 0 the
                      \* interceptor installed by callTool invocation r
    calls,            \* per callTool invocation: its position, its recovery, its outcome
    handed,           \* the messages the client's own handler got from the last delivery
    \* ---- frontend sessions (SpecStream) ----
    frontend,               \* environment: the transport this run's clients use, "sse" or "http"
    issuedIds,              \* the session ids randomUUID has produced
    activeSSETransports,    \* the legacy registry: the session ids of the Map, in insertion order
    closed,                 \* legacy sessions whose response emitted "close" (closed = true)
    sseClosing,             \* legacy sessions whose "close" listener is suspended at
                            \* `await server.close()`
    activeStreamTransports, \* the registry: the session ids of the Map, in insertion order
    oncloseAwaiting,        \* per session: runs of transport.onclose suspended at
                            \* `await server.close()`
    serverCloseCalls,       \* per session: how many times server.close() was invoked
    closeOutcome,           \* how the last close step that settled ended: "none", "ok",
                            \* "logged" (it failed and the catch logged it), "raised"
    streamDiscPc,           \* position of disconnectAll's stream phase
    discCur,                \* the entry the loop of disconnectAll is closing
    discVisited,            \* the entries the loop has been through
    lastStatus,             \* the HTTP status of the last request answered
    lastBody,               \* its body: "envelope" (JSON-RPC error object), "text" (plain
                            \* text), "transport" (written by the session's transport)
    forwarded,              \* the session whose transport was handed the last request
    lastRequest,            \* the method and path of the last request handled
    initState,              \* per initialize request: "none", "creating" (suspended at
                            \* the creation of its server), "failed", "rejected",
                            \* "initialized"
    pairOf                  \* per session id: the request whose { server, transport } pair
                            \* was stored under it (0: never stored)

notifyVars == <<refreshing, refreshCount, latestRefresh, peerDown>>

connVars == <<willFail, backendCaps, connPc, connectAllPc, hamaConnections,
              discPc, closePending, lastCall, notifyVars>>

storeVars == <<clock, events, recorded, replayOut>>

normVars == <<normIn, normOuts>>

bypassVars == <<nowMs, transport, onmessage, calls, handed>>

sseVars == <<activeSSETransports, closed, sseClosing>>

httpVars == <<activeStreamTransports, oncloseAwaiting>>

discVars == <<streamDiscPc, discCur, discVisited>>

responseVars == <<lastStatus, lastBody, forwarded, lastRequest>>

initVars == <<initState, pairOf>>

streamVars == <<frontend, issuedIds, sseVars, httpVars, serverCloseCalls, closeOutcome, initVars,
                discVars, responseVars>>

vars == <<connVars, storeVars, normVars, bypassVars, streamVars>>

\* What the actions of one group leave alone.
nonConnVars == <<storeVars, normVars, bypassVars, streamVars>>
nonStoreVars == <<connVars, normVars, bypassVars, streamVars>>
nonNormVars == <<connVars, storeVars, bypassVars, streamVars>>
nonBypassVars == <<connVars, storeVars, normVars, streamVars>>
nonStreamVars == <<connVars, storeVars, normVars, bypassVars>>

(***************************************************************************)
(* Names.  A name is a sequence of characters; Sep is the reserved         *)
(* qualifier separator ':'.                                                *)
(***************************************************************************)
Sep == ":"

Servers == {"s1", "s2", "s3"}

NameA == <<"a">>
NameB == <<"b">>
NameAB == <<"a", Sep, "b">>

LocalNames == {NameA, NameB, NameAB}

Kinds == {"tool", "prompt", "resource"}

\* What a backend's three listings return.
Profiles ==
    { [tool |-> <<NameA, NameB>>, prompt |-> <<NameB>>,        resource |-> <<NameAB, NameA>>],
      [tool |-> <<NameB, NameAB>>, prompt |-> <<NameA, NameB>>, resource |-> <<NameB>>],
      [tool |-> <<NameA>>,        prompt |-> <<>>,             resource |-> <<NameA, NameB>>] }

\* The assignments of listings to the configured backends that are explored:
\* every backend gets every profile, and no two backends the same one.
CapAssignments ==
    { f \in [Servers -> Profiles] :
        /\ \A s, u \in Servers : s # u => f[s] # f[u]
        /\ \/ f["s1"].prompt = <<>> /\ f["s2"].resource = <<NameB>>
           \/ f["s2"].prompt = <<>> /\ f["s3"].resource = <<NameB>>
           \/ f["s3"].prompt = <<>> /\ f["s1"].resource = <<NameB>> }

\* `${serverName}:${localName}`
Qualified(s, local) == <<s, Sep>> \o local

\* The names a frontend may pass: unqualified, qualified with a configured
\* backend, qualified with a backend that is not configured.
CallNames ==
    LocalNames \cup { Qualified(s, l) : s \in Servers, l \in LocalNames }
               \cup { Qualified("zz", NameA) }

----------------------------------------------------------------------------
(***************************************************************************)
(* String helpers, as JavaScript computes them.                            *)
(***************************************************************************)
\* name.includes(':')
Includes(name) == \E i \in 1..Len(name) : name[i] = Sep

\* index of the first separator at or after position from, Len+1 if none
FirstSepFrom(name, from) ==
    IF \E i \in from..Len(name) : name[i] = Sep
    THEN CHOOSE i \in from..Len(name) :
            name[i] = Sep /\ \A j \in from..(i - 1) : name[j] # Sep
    ELSE Len(name) + 1

\* name.split(':', 2): the pieces between separators, at most the first two.
Split2(name) ==
    LET i == FirstSepFrom(name, 1)
        j == FirstSepFrom(name, i + 1)
    IN  IF i > Len(name)
        THEN <<name>>
        ELSE << SubSeq(name, 1, i - 1), SubSeq(name, i + 1, j - 1) >>

----------------------------------------------------------------------------
(***************************************************************************)
(* The registry.                                                           *)
(***************************************************************************)
RegisteredNames == { hamaConnections[i].serverName : i \in 1..Len(hamaConnections) }

\* hamaConnections.get(serverName): the index of the entry, 0 if absent
ConnIndex(s) ==
    IF \E i \in 1..Len(hamaConnections) : hamaConnections[i].serverName = s
    THEN CHOOSE i \in 1..Len(hamaConnections) : hamaConnections[i].serverName = s
    ELSE 0

\* hamaConnections.set(serverName, conn): a new key is appended, an existing
\* key keeps its position.
MapSet(conn) ==
    IF ConnIndex(conn.serverName) = 0
    THEN Append(hamaConnections, conn)
    ELSE [hamaConnections EXCEPT ![ConnIndex(conn.serverName)] = conn]

CachedList(conn, kind) ==
    CASE kind = "tool"     -> conn.tools
      [] kind = "prompt"   -> conn.prompts
      [] kind = "resource" -> conn.resources

InList(list, local) == \E k \in 1..Len(list) : list[k] = local

----------------------------------------------------------------------------
(***************************************************************************)
(* Backend connection manager: connectAllServers / connectToServer.        *)
(***************************************************************************)
\* No refresh of the backend has started: n counts the refreshes started for
\* it, overlapped says that the n-th started while an earlier one was awaiting
\* its listings, done that the n-th has completed, lists is what it obtained.
NoRefresh ==
    [n |-> 0, overlapped |-> FALSE, done |-> FALSE, lists |-> [k \in Kinds |-> <<>>]]

ConnInit ==
    /\ willFail \in SUBSET Servers
    /\ backendCaps \in CapAssignments
    /\ connPc = [s \in Servers |-> "idle"]
    /\ connectAllPc = "init"
    /\ hamaConnections = <<>>
    /\ discPc = "none"
    /\ closePending = {}
    /\ lastCall = [kind |-> "none"]
    /\ refreshing = {}
    /\ refreshCount = 0
    /\ latestRefresh = [s \in Servers |-> NoRefresh]
    /\ peerDown = {}

\* The values the group holds while another component's specification runs.
ConnIdle ==
    /\ willFail = {}
    /\ backendCaps = [s \in Servers |-> CHOOSE p \in Profiles : p.prompt = <<>>]
    /\ connPc = [s \in Servers |-> "idle"]
    /\ connectAllPc = "init"
    /\ hamaConnections = <<>>
    /\ discPc = "none"
    /\ closePending = {}
    /\ lastCall = [kind |-> "none"]
    /\ refreshing = {}
    /\ refreshCount = 0
    /\ latestRefresh = [s \in Servers |-> NoRefresh]
    /\ peerDown = {}

Running == discPc # "done"

\* connectAllServers up to its await: the map starts every backend's task, and
\* each task runs to its first await (mcpClient.connect).
ConnectAllStart ==
    /\ Running
    /\ connectAllPc = "init"
    /\ connectAllPc' = "running"
    /\ connPc' = [s \in Servers |-> "connecting"]
    /\ UNCHANGED <<willFail, backendCaps, hamaConnections, discPc, closePending, lastCall>>
    /\ UNCHANGED notifyVars
    /\ UNCHANGED nonConnVars

\* A connect attempt that throws (spawn failure, handshake error): the task's
\* catch logs it, the task fulfils.
ConnectFailMutantAbort(s) ==
    /\ Running
    /\ connPc[s] = "connecting"
    /\ s \in willFail
    /\ connPc' = [connPc EXCEPT ![s] = "failed"]
    /\ connectAllPc' = "raised"
    /\ UNCHANGED <<willFail, backendCaps, hamaConnections, discPc, closePending, lastCall>>
    /\ UNCHANGED notifyVars
    /\ UNCHANGED nonConnVars

ConnectFail(s) ==
    /\ Running
    /\ connPc[s] = "connecting"
    /\ s \in willFail
    /\ connPc' = [connPc EXCEPT ![s] = "failed"]
    /\ UNCHANGED <<willFail, backendCaps, connectAllPc, hamaConnections, discPc,
                   closePending, lastCall>>
    /\ UNCHANGED notifyVars
    /\ UNCHANGED nonConnVars

\* mcpClient.connect(transport) resolves; the three listings are sent.
ConnectOk(s) ==
    /\ Running
    /\ connPc[s] = "connecting"
    /\ s \notin willFail
    /\ connPc' = [connPc EXCEPT ![s] = "listing"]
    /\ UNCHANGED <<willFail, backendCaps, connectAllPc, hamaConnections, discPc,
                   closePending, lastCall>>
    /\ UNCHANGED notifyVars
    /\ UNCHANGED nonConnVars

\* One listing's value: the backend's list, or [] when the listing failed.
Listing(s, kind, failed) == IF kind \in failed THEN <<>> ELSE backendCaps[s][kind]

\* The three listings settle (those in failed rejected); the connection record
\* is built with active = true and put in the registry.  A mutant of it that
\* registers the record inactive.
NewConnectionMutantInactive(s, failed) ==
    [ serverName |-> s,
      active     |-> FALSE,
      tools      |-> Listing(s, "tool", failed),
      prompts    |-> Listing(s, "prompt", failed),
      resources  |-> Listing(s, "resource", failed) ]

NewConnection(s, failed) ==
    [ serverName |-> s,
      active     |-> TRUE,
      tools      |-> Listing(s, "tool", failed),
      prompts    |-> Listing(s, "prompt", failed),
      resources  |-> Listing(s, "resource", failed) ]

Register(s, failed) ==
    /\ Running
    /\ connPc[s] = "listing"
    /\ hamaConnections' = MapSet(NewConnection(s, failed))
    /\ connPc' = [connPc EXCEPT ![s] = "registered"]
    /\ UNCHANGED <<willFail, backendCaps, connectAllPc, discPc, closePending, lastCall>>
    /\ UNCHANGED notifyVars
    /\ UNCHANGED nonConnVars

\* Promise.allSettled(connectionPromises) resolves; connectAllServers returns.
ConnectAllDone ==
    /\ Running
    /\ connectAllPc = "running"
    /\ \A s \in Servers : connPc[s] \in {"registered", "failed"}
    /\ connectAllPc' = "done"
    /\ UNCHANGED <<willFail, backendCaps, connPc, hamaConnections, discPc,
                   closePending, lastCall>>
    /\ UNCHANGED notifyVars
    /\ UNCHANGED nonConnVars

----------------------------------------------------------------------------
(***************************************************************************)
(* Capability-change notifications: refreshServerData.                     *)
(***************************************************************************)
MaxRefresh == 1
MaxOverlap == 1

\* A call of refreshServerData(s) that awaits its listings: the n-th for s.
InFlight(s) == { f \in refreshing : f.server = s }

\* refreshServerData(s) gets the connection and sends the three listings.
StartRefresh(s) ==
    /\ refreshing' = refreshing \cup {[server |-> s, n |-> latestRefresh[s].n + 1]}
    /\ refreshCount' = refreshCount + 1
    /\ latestRefresh' = [latestRefresh EXCEPT ![s] = [@ EXCEPT !.n = @ + 1, !.done = FALSE,
                                                  !.overlapped = InFlight(s) # {}]]

\* A backend's capabilities change to profile p and its notification reaches
\* the handler set at registration, while no refresh of it is in flight.
CapabilityChanged(s, p) ==
    /\ Running
    /\ ConnIndex(s) # 0
    /\ InFlight(s) = {}
    /\ s \notin peerDown
    /\ refreshCount < MaxRefresh
    /\ p # backendCaps[s]
    /\ backendCaps' = [backendCaps EXCEPT ![s] = p]
    /\ StartRefresh(s)
    /\ UNCHANGED <<willFail, connPc, connectAllPc, hamaConnections, discPc, closePending,
                   lastCall, peerDown>>
    /\ UNCHANGED nonConnVars

\* The same while an earlier refresh of the backend still awaits its listings:
\* the handler holds no lock and starts another refreshServerData.
CapabilityChangedAgain(s, p) ==
    /\ Running
    /\ ConnIndex(s) # 0
    /\ InFlight(s) # {}
    /\ s \notin peerDown
    /\ refreshCount < MaxRefresh + MaxOverlap
    /\ p # backendCaps[s]
    /\ backendCaps' = [backendCaps EXCEPT ![s] = p]
    /\ StartRefresh(s)
    /\ UNCHANGED <<willFail, connPc, connectAllPc, hamaConnections, discPc, closePending,
                   lastCall, peerDown>>
    /\ UNCHANGED nonConnVars

\* The assignments after the listings settled: each cached list becomes what
\* its listing returned, [] for a listing that failed.  A mutant of it that
\* empties every list when any listing failed.
RefreshedMutantAllOrNothing(conn, failed) ==
    [conn EXCEPT !.tools     = IF failed # {} THEN <<>> ELSE Listing(conn.serverName, "tool", failed),
                 !.prompts   = IF failed # {} THEN <<>> ELSE Listing(conn.serverName, "prompt", failed),
                 !.resources = IF failed # {} THEN <<>> ELSE Listing(conn.serverName, "resource", failed)]

Refreshed(conn, failed) ==
    [conn EXCEPT !.tools     = Listing(conn.serverName, "tool", failed),
                 !.prompts   = Listing(conn.serverName, "prompt", failed),
                 !.resources = Listing(conn.serverName, "resource", failed)]

\* The registry after the refresh of backend s wrote its connection object, and
\* a mutant of it that rebuilds the registry with that connection alone.
RefreshWriteMutantAlone(s, failed) ==
    <<Refreshed(hamaConnections[ConnIndex(s)], failed)>>

RefreshWrite(s, failed) ==
    [hamaConnections EXCEPT ![ConnIndex(s)] = Refreshed(hamaConnections[ConnIndex(s)], failed)]

\* The three listings of refresh f settle (those in failed rejected) and its
\* assignments run.
RefreshSettled(f, failed) ==
    /\ Running
    /\ f \in refreshing
    /\ refreshing' = refreshing \ {f}
    /\ hamaConnections' = IF ConnIndex(f.server) = 0 THEN hamaConnections
                          ELSE RefreshWrite(f.server, failed)
    /\ latestRefresh' =
          IF f.n # latestRefresh[f.server].n THEN latestRefresh
          ELSE [latestRefresh EXCEPT ![f.server] =
                  [@ EXCEPT !.done = TRUE,
                            !.lists = [k \in Kinds |-> Listing(f.server, k, failed)]]]
    /\ UNCHANGED <<willFail, backendCaps, connPc, connectAllPc, discPc, closePending,
                   lastCall, refreshCount, peerDown>>
    /\ UNCHANGED nonConnVars

\* A connected backend's process dies (its channel closes).  connectToServer
\* registers no close or error handler on the client or its transport, so
\* nothing in the manager runs.
PeerFails(s) ==
    /\ Running
    /\ ConnIndex(s) # 0
    /\ s \notin peerDown
    /\ peerDown' = peerDown \cup {s}
    /\ UNCHANGED <<willFail, backendCaps, connPc, connectAllPc, hamaConnections, discPc,
                   closePending, lastCall, refreshing, refreshCount, latestRefresh>>
    /\ UNCHANGED nonConnVars

----------------------------------------------------------------------------
(***************************************************************************)
(* disconnectAll, connection phase.                                        *)
(***************************************************************************)
\* The map over Array.from(hamaConnections.values()): every task sets
\* active = false and runs to its await of client.close().  With no connection
\* registered nothing is awaited on a peer, and disconnectAll runs to its end
\* before any other callback.
DisconnectStart ==
    /\ discPc = "none"
    /\ connectAllPc # "init"
    /\ discPc' = IF hamaConnections = <<>> THEN "done" ELSE "closing"
    /\ hamaConnections' =
          [i \in 1..Len(hamaConnections) |-> [hamaConnections[i] EXCEPT !.active = FALSE]]
    /\ closePending' = RegisteredNames
    /\ UNCHANGED <<willFail, backendCaps, connPc, connectAllPc, lastCall>>
    /\ UNCHANGED notifyVars
    /\ UNCHANGED nonConnVars

\* One client.close() settles; a rejection is caught and logged.
CloseSettled(s) ==
    /\ discPc = "closing"
    /\ s \in closePending
    /\ closePending' = closePending \ {s}
    /\ UNCHANGED <<willFail, backendCaps, connPc, connectAllPc, hamaConnections,
                   discPc, lastCall>>
    /\ UNCHANGED notifyVars
    /\ UNCHANGED nonConnVars

\* Promise.allSettled resolves; hamaConnections.clear().
DisconnectDone ==
    /\ discPc = "closing"
    /\ closePending = {}
    /\ hamaConnections' = <<>>
    /\ discPc' = "done"
    /\ UNCHANGED <<willFail, backendCaps, connPc, connectAllPc, closePending, lastCall>>
    /\ UNCHANGED notifyVars
    /\ UNCHANGED nonConnVars

----------------------------------------------------------------------------
(***************************************************************************)
(* Routing: callTool / getPrompt / readResource up to the forwarded call.  *)
(***************************************************************************)
\* Array.from(hamaConnections.values()).find(conn => conn.active &&
\*     conn.<list>.some(c => c.name === name)): the index found, 0 if none.
FindFirstMutantLast(kind, name) ==
    LET hits == { i \in 1..Len(hamaConnections) :
                    /\ hamaConnections[i].active
                    /\ InList(CachedList(hamaConnections[i], kind), name) }
    IN  IF hits = {} THEN 0 ELSE CHOOSE i \in hits : \A j \in hits : j <= i

FindFirst(kind, name) ==
    LET hits == { i \in 1..Len(hamaConnections) :
                    /\ hamaConnections[i].active
                    /\ InList(CachedList(hamaConnections[i], kind), name) }
    IN  IF hits = {} THEN 0 ELSE CHOOSE i \in hits : \A j \in hits : i <= j

\* const connection = hamaConnections.get(targetServer);
\* if (!connection || !connection.active) throw ...; forward to its client.
\* A mutant of it that reports the missing connection as not found.
ForwardMutantNotFound(kind, name, targetServer, actualName) ==
    LET hit == { s \in RegisteredNames : <<s>> = targetServer }
    IN  IF hit = {} \/ \E s \in hit : ~hamaConnections[ConnIndex(s)].active
        THEN [kind |-> kind, name |-> name, outcome |-> "NotFound"]
        ELSE [kind |-> kind, name |-> name, outcome |-> "dispatched",
              server |-> CHOOSE s \in hit : TRUE, local |-> actualName]

Forward(kind, name, targetServer, actualName) ==
    LET hit == { s \in RegisteredNames : <<s>> = targetServer }
    IN  IF hit = {} \/ \E s \in hit : ~hamaConnections[ConnIndex(s)].active
        THEN [kind |-> kind, name |-> name, outcome |-> "ServerUnavailable"]
        ELSE [kind |-> kind, name |-> name, outcome |-> "dispatched",
              server |-> CHOOSE s \in hit : TRUE, local |-> actualName]

ResolveName(kind, name) ==
    IF Includes(name)
    THEN LET parts == Split2(name) IN Forward(kind, name, parts[1], parts[2])
    ELSE LET i == FindFirst(kind, name)
         IN  IF i = 0
             THEN [kind |-> kind, name |-> name, outcome |-> "NotFound"]
             ELSE Forward(kind, name, <<hamaConnections[i].serverName>>, name)

\* A frontend request reaches callTool / getPrompt / readResource.  The HTTP
\* server listens only once connectAllServers has returned.
Call(kind, name) ==
    /\ Running
    /\ connectAllPc = "done"
    /\ lastCall' = ResolveName(kind, name)
    /\ UNCHANGED <<willFail, backendCaps, connPc, connectAllPc, hamaConnections,
                   discPc, closePending>>
    /\ UNCHANGED notifyVars
    /\ UNCHANGED nonConnVars

\* One entry of a unified listing: { ...tool, serverName, fullName } (fullUri
\* for a resource), and a mutant of it that leaves the name unqualified.
EntryMutantUnqualified(kind, s, local) ==
    IF kind = "resource"
    THEN [uri |-> local, serverName |-> s, fullUri |-> local]
    ELSE [name |-> local, serverName |-> s, fullName |-> local]

Entry(kind, s, local) ==
    IF kind = "resource"
    THEN [uri |-> local, serverName |-> s, fullUri |-> Qualified(s, local)]
    ELSE [name |-> local, serverName |-> s, fullName |-> Qualified(s, local)]

\* getUnifiedTools / getUnifiedPrompts / getUnifiedResources: the loop over the
\* registry from entry i on.
RECURSIVE UnifiedFrom(_, _)
UnifiedFrom(kind, i) ==
    IF i > Len(hamaConnections) THEN <<>>
    ELSE LET conn == hamaConnections[i]
             list == CachedList(conn, kind)
         IN  (IF conn.active
              THEN [k \in 1..Len(list) |-> Entry(kind, conn.serverName, list[k])]
              ELSE <<>>)
             \o UnifiedFrom(kind, i + 1)

GetUnified(kind) == UnifiedFrom(kind, 1)

\* A frontend's tools/list, prompts/list or resources/list reaches the unified
\* server's handler.
List(kind) ==
    /\ Running
    /\ connectAllPc = "done"
    /\ lastCall' = [kind |-> kind, name |-> <<>>, outcome |-> "listed",
                    list |-> GetUnified(kind)]
    /\ UNCHANGED <<willFail, backendCaps, connPc, connectAllPc, hamaConnections,
                   discPc, closePending>>
    /\ UNCHANGED notifyVars
    /\ UNCHANGED nonConnVars

----------------------------------------------------------------------------
(***************************************************************************)
(* InMemoryEventStore.  An event id is the string                          *)
(* `${streamId}_${Date.now()}_${random}`, here a sequence of characters    *)
(* in which the timestamp and the random suffix are one character each     *)
(* (timestamps have one width, so comparing them as text compares them as  *)
(* numbers).                                                               *)
(***************************************************************************)
MaxTime == 2
MaxEvents == 3

Underscore == "_"
Digits == <<"0", "1", "2", "3", "4", "5", "6", "7", "8", "9">>
TimeChar(t) == Digits[t + 1]

\* Math.random().toString(36).substring(2, 10)
RandomSuffixes == {"k", "r"}

\* Stream ids: two request streams and the transport's standalone stream,
\* whose id holds underscores.
StreamIds == { <<"u">>, <<"v">>, <<Underscore, "G", Underscore, "s">> }

\* The collation order of the characters: punctuation, digits, letters.
CharRank(c) ==
    CASE c = Underscore -> 0
      [] \E d \in 1..Len(Digits) : Digits[d] = c ->
            CHOOSE d \in 1..Len(Digits) : Digits[d] = c
      [] c = "G" -> 20
      [] c = "k" -> 21
      [] c = "r" -> 22
      [] c = "s" -> 23
      [] c = "u" -> 24
      [] c = "v" -> 25
      [] OTHER -> 30

\* a.localeCompare(b) < 0
RECURSIVE LocaleLess(_, _)
LocaleLess(a, b) ==
    IF a = <<>> THEN b # <<>>
    ELSE IF b = <<>> THEN FALSE
    ELSE IF CharRank(Head(a)) # CharRank(Head(b)) THEN CharRank(Head(a)) < CharRank(Head(b))
    ELSE LocaleLess(Tail(a), Tail(b))

\* generateEventId(streamId), with the clock and the random draw it reads
GenerateEventId(streamId, now, rnd) ==
    streamId \o <<Underscore, TimeChar(now), Underscore, rnd>>

\* getStreamIdFromEventId: eventId.split("_")[0]
GetStreamIdFromEventId(eventId) ==
    IF \E i \in 1..Len(eventId) : eventId[i] = Underscore
    THEN SubSeq(eventId, 1,
                (CHOOSE i \in 1..Len(eventId) :
                    eventId[i] = Underscore /\ \A j \in 1..(i - 1) : eventId[j] # Underscore) - 1)
    ELSE eventId

\* [...ids].sort((a, b) => a.localeCompare(b))
RECURSIVE SortedIds(_)
SortedIds(ids) ==
    IF ids = {} THEN <<>>
    ELSE LET least == CHOOSE x \in ids : \A y \in ids \ {x} : LocaleLess(x, y)
         IN  <<least>> \o SortedIds(ids \ {least})

\* The loop of replayEventsAfter over the sorted entries: what it sends.
RECURSIVE ReplayLoop(_, _, _, _)
ReplayLoop(sorted, streamId, lastEventId, foundLastEvent) ==
    IF sorted = <<>> THEN <<>>
    ELSE LET eventId == Head(sorted)
         IN  IF events[eventId].streamId # streamId
             THEN ReplayLoop(Tail(sorted), streamId, lastEventId, foundLastEvent)
             ELSE IF eventId = lastEventId
             THEN ReplayLoop(Tail(sorted), streamId, lastEventId, TRUE)
             ELSE IF foundLastEvent
             THEN << [eventId |-> eventId, message |-> events[eventId].message] >>
                  \o ReplayLoop(Tail(sorted), streamId, lastEventId, TRUE)
             ELSE ReplayLoop(Tail(sorted), streamId, lastEventId, FALSE)

\* replayEventsAfter(lastEventId, {send}): the sends it makes and what it returns
ReplayResult(lastEventId) ==
    IF lastEventId = <<>> \/ lastEventId \notin DOMAIN events
    THEN [sent |-> <<>>, ret |-> <<>>]
    ELSE LET streamId == GetStreamIdFromEventId(lastEventId)
         IN  IF streamId = <<>>
             THEN [sent |-> <<>>, ret |-> <<>>]
             ELSE [sent |-> ReplayLoop(SortedIds(DOMAIN events), streamId, lastEventId, FALSE),
                   ret  |-> streamId]

NoReplay == [called |-> FALSE]

StoreInit ==
    /\ clock = 1
    /\ events = <<>>
    /\ recorded = <<>>
    /\ replayOut = NoReplay

StoreIdle == StoreInit

\* Time passes between two reads of Date.now().
Tick ==
    /\ clock < MaxTime
    /\ clock' = clock + 1
    /\ UNCHANGED <<events, recorded, replayOut>>
    /\ UNCHANGED nonStoreVars

\* storeEvent(streamId, message); the message is the call's number.
StoreEvent(streamId, rnd) ==
    /\ Len(recorded) < MaxEvents
    /\ LET eventId == GenerateEventId(streamId, clock, rnd)
           entry == [message |-> Len(recorded) + 1, streamId |-> streamId]
       IN  /\ events' = [x \in DOMAIN events \cup {eventId} |->
                            IF x = eventId THEN entry ELSE events[x]]
           /\ recorded' = Append(recorded, [eventId |-> eventId, streamId |-> streamId,
                                            message |-> Len(recorded) + 1])
    /\ UNCHANGED <<clock, replayOut>>
    /\ UNCHANGED nonStoreVars

\* The ids a client may present as Last-Event-ID: one it received, none, one
\* the store never issued.
LastEventIds == DOMAIN events \cup { <<>>, <<"w", Underscore, "1", Underscore, "k">> }

ReplayEventsAfter(lastEventId) ==
    /\ replayOut' = [called |-> TRUE, lastEventId |-> lastEventId]
                       @@ ReplayResult(lastEventId)
    /\ UNCHANGED <<clock, events, recorded>>
    /\ UNCHANGED nonStoreVars

StoreNext ==
    \/ Tick
    \/ \E streamId \in StreamIds, rnd \in RandomSuffixes : StoreEvent(streamId, rnd)
    \/ \E lastEventId \in LastEventIds : ReplayEventsAfter(lastEventId)

----------------------------------------------------------------------------
(***************************************************************************)
(* Response normalization (the second try block of callTool).              *)
(*                                                                         *)
(* A reply is a JavaScript value: [t |-> its type, v |-> its content].     *)
(* The content of a string is a sequence of pieces of text, of an array a  *)
(* sequence of values, of an object a function from its keys to values.    *)
(***************************************************************************)
MaxFields == 2
MaxApply == 2

Undefined == [t |-> "undefined", v |-> "undefined"]
Null == [t |-> "null", v |-> "null"]
Str(s) == [t |-> "string", v |-> s]
Num(n) == [t |-> "number", v |-> n]
Bool(b) == [t |-> "boolean", v |-> b]
Arr(items) == [t |-> "array", v |-> items]
Obj(f) == [t |-> "object", v |-> f]
BigInt(n) == [t |-> "bigint", v |-> n]

\* textFields, in priority order
TextFields == << "text", "content", "message", "result", "output", "transcript",
                 "description", "summary", "response", "value", "body", "data" >>

\* The order in which an object's keys are enumerated.
KeyOrder == TextFields \o << "foo", "type" >>

\* the text of the no-response result (line 559)
NoResultText == <<"tool run complete (no response)">>

\* { content: [{ type: "text", text }] }
TextItem(text) == Obj([k \in {"type", "text"} |-> IF k = "type" THEN Str(<<"text">>) ELSE Str(text)])
Envelope(text) == Obj([k \in {"content"} |-> Arr(<<TextItem(text)>>)])

\* !x
Falsy(x) ==
    \/ x.t \in {"undefined", "null"}
    \/ x.t = "string" /\ x.v = <<>>
    \/ x.t = "number" /\ x.v = 0
    \/ x.t = "boolean" /\ x.v = FALSE

\* typeof x === 'object'
TypeofObject(x) == x.t \in {"object", "array", "null"}

\* x[field]
Prop(x, field) ==
    IF x.t = "object" /\ field \in DOMAIN x.v THEN x.v[field] ELSE Undefined

\* String(x) for a number or a boolean
StringOf(x) ==
    IF x.t = "number" THEN <<ToString(x.v)>>
    ELSE IF x.v THEN <<"true">> ELSE <<"false">>

\* JSON.stringify(x, null, 2) fails (TypeError) on a BigInt anywhere in x.
RECURSIVE Serializable(_)
Serializable(x) ==
    CASE x.t = "bigint" -> FALSE
      [] x.t = "array"  -> \A k \in 1..Len(x.v) : Serializable(x.v[k])
      [] x.t = "object" -> \A key \in DOMAIN x.v : Serializable(x.v[key])
      [] OTHER          -> TRUE

\* The indentation of nesting depth d: two spaces per level.
RECURSIVE Indent(_)
Indent(d) == IF d = 0 THEN <<>> ELSE <<"  ">> \o Indent(d - 1)

\* JSON.stringify(x, null, 2), as the sequence of its pieces of text: one item
\* or key per line, indented, separated by commas; [] and {} when empty.
RECURSIVE StringifyAt(_, _)
RECURSIVE StringifyItems(_, _)
RECURSIVE StringifyKeys(_, _, _)
StringifyItems(items, d) ==
    IF items = <<>> THEN <<>>
    ELSE <<"\n">> \o Indent(d) \o StringifyAt(Head(items), d)
         \o (IF Len(items) > 1 THEN <<",">> ELSE <<>>)
         \o StringifyItems(Tail(items), d)

StringifyKeys(f, keys, d) ==
    IF keys = <<>> THEN <<>>
    ELSE <<"\n">> \o Indent(d) \o <<"\"" \o Head(keys) \o "\"", ": ">>
         \o StringifyAt(f[Head(keys)], d)
         \o (IF Len(keys) > 1 THEN <<",">> ELSE <<>>)
         \o StringifyKeys(f, Tail(keys), d)

StringifyAt(x, d) ==
    CASE x.t = "null"    -> <<"null">>
      [] x.t = "string"  -> <<"\"">> \o x.v \o <<"\"">>
      [] x.t = "number"  -> StringOf(x)
      [] x.t = "boolean" -> StringOf(x)
      [] x.t = "array"   ->
            IF x.v = <<>> THEN <<"[]">>
            ELSE <<"[">> \o StringifyItems(x.v, d + 1) \o <<"\n">> \o Indent(d) \o <<"]">>
      [] x.t = "object"  ->
            LET keys == SelectSeq(KeyOrder, LAMBDA key : key \in DOMAIN x.v)
            IN  IF keys = <<>> THEN <<"{}">>
                ELSE <<"{">> \o StringifyKeys(x.v, keys, d + 1) \o <<"\n">> \o Indent(d)
                     \o <<"}">>

\* What a throw inside the try block leaves in place of a value.
Raised == [t |-> "raised", v |-> <<"TypeError">>]

Stringify(x) == IF Serializable(x) THEN Str(StringifyAt(x, 0)) ELSE Raised

\* result.content && Array.isArray(result.content) && result.content.length > 0
HasContentArray(result) ==
    /\ ~Falsy(Prop(result, "content"))
    /\ Prop(result, "content").t = "array"
    /\ Len(Prop(result, "content").v) > 0

\* The loop over textFields: the text it ends with ('' when no field was used,
\* Raised when serializing the field's value threw).
RECURSIVE ScanTextFields(_, _)
ScanTextFields(result, fields) ==
    IF fields = <<>> THEN Str(<<>>)
    ELSE LET val == Prop(result, Head(fields))
         IN  IF val.t \in {"undefined", "null"} THEN ScanTextFields(result, Tail(fields))
             ELSE IF val.t = "string" THEN val
             ELSE IF TypeofObject(val) THEN Stringify(val)
             ELSE ScanTextFields(result, Tail(fields))

\* { content: [{ type: "text", text }] } unless computing the text threw.
EnvelopeOf(text) == IF text.t = "raised" THEN Raised ELSE Envelope(text.v)

\* The fallback when no field gave a text (lines 602-606): the whole object,
\* pretty-printed; and a mutant of it that leaves the text empty.
FullObjectMutantEmpty(result) == Envelope(<<>>)

FullObject(result) == EnvelopeOf(Stringify(result))

\* The try block of the normalization (lines 555-619), and a mutant of it
\* without the already-canonical test.
NormalizeTryMutantRewrap(result) ==
    IF Falsy(result) THEN Envelope(NoResultText)
    ELSE IF result.t = "string" THEN Envelope(result.v)
    ELSE IF TypeofObject(result)
    THEN LET textContent == ScanTextFields(result, TextFields)
         IN  IF textContent = Str(<<>>) THEN FullObject(result)
             ELSE EnvelopeOf(textContent)
    ELSE Envelope(StringOf(result))

NormalizeTry(result) ==
    IF Falsy(result) THEN Envelope(NoResultText)
    ELSE IF HasContentArray(result) THEN result
    ELSE IF result.t = "string" THEN Envelope(result.v)
    ELSE IF TypeofObject(result)
    THEN LET textContent == ScanTextFields(result, TextFields)
         IN  IF textContent = Str(<<>>) THEN FullObject(result)
             ELSE EnvelopeOf(textContent)
    ELSE Envelope(StringOf(result))

\* the text of the conversion-error result (line 626)
ConversionErrorText == <<"tool run error: ", "TypeError">>

\* The normalization block with its catch (lines 621-628).
Normalize(result) ==
    IF NormalizeTry(result).t = "raised" THEN Envelope(ConversionErrorText)
    ELSE NormalizeTry(result)

\* The replies explored: every scalar shape, arrays, and the objects of at most
\* MaxFields keys over these keys and values.
ScalarReplies ==
    { Undefined, Null, Str(<<>>), Str(<<"hello">>), Num(0), Num(5), Bool(FALSE), Bool(TRUE) }

FieldValues ==
    (ScalarReplies \ {Undefined})
        \cup { Arr(<<>>), Arr(<<TextItem(<<"hi">>)>>), Arr(<<Str(<<"x">>), Num(1)>>),
               Obj([k \in {"foo"} |-> Str(<<"bar">>)]), BigInt(7) }

ReplyKeys == {"text", "content", "message", "data", "foo"}

ObjectReplies ==
    UNION { { Obj(f) : f \in [keys -> FieldValues] } :
              keys \in { ks \in SUBSET ReplyKeys : Cardinality(ks) <= MaxFields } }

Replies ==
    ScalarReplies \cup { v \in FieldValues : v.t \in {"array", "object"} } \cup ObjectReplies

NormInit ==
    /\ normIn \in Replies
    /\ normOuts = <<>>

NormIdle ==
    /\ normIn = Undefined
    /\ normOuts = <<>>

\* callTool normalizes the reply it got.
NormalizeReply ==
    /\ normOuts = <<>>
    /\ normOuts' = <<Normalize(normIn)>>
    /\ normIn' = normIn
    /\ UNCHANGED nonNormVars

\* The returned value comes back as a reply (a proxy in front of a proxy) and is
\* normalized again.
NormalizeAgain ==
    /\ normOuts # <<>>
    /\ Len(normOuts) < MaxApply
    /\ normOuts' = Append(normOuts, Normalize(normOuts[Len(normOuts)]))
    /\ normIn' = normIn
    /\ UNCHANGED nonNormVars

NormNext ==
    \/ NormalizeReply
    \/ NormalizeAgain

----------------------------------------------------------------------------
(***************************************************************************)
(* Schema-bypass fallback: callTool's catch branch and callToolDirectly,   *)
(* for the invocations of callTool that reach one connection.              *)
(***************************************************************************)
MaxCalls == 2
MaxNow == 3

CallIds == 1..MaxCalls

\* The handler the client installed on its transport when it connected.
ClientHandler == 0

IdleCall(r) ==
    [ self |-> r,           \* the invocation
      pc |-> "idle",        \* idle, conformant, direct, returned, raised
      id |-> 0,             \* request.id of the bypass request
      orig |-> ClientHandler,  \* originalOnMessage captured by the interceptor
      installed |-> FALSE,  \* the interceptor was created
      timer |-> "none",     \* none, armed, cleared, fired
      sent |-> FALSE,       \* the bypass request is on the wire, unanswered
      ret |-> Undefined,    \* what callTool returned
      failedBy |-> "none",  \* history: how the recovery's promise was rejected
      arrived |-> FALSE,    \* history: a matching success reply came in while pending
      overlap |-> FALSE ]   \* history: another recovery was pending at the same time

\* The raw result the backend sends for invocation r's request.
RawResult(r) == Obj([k \in {"message"} |-> Str(<<"reply", ToString(r)>>)])

\* The last-resort result of callTool (lines 542-547).
FailureEnvelope(r) ==
    Envelope(<<"tool error: MCP response format", ToString(r), "ZodError">>)

\* callTool's catch of directError, and a mutant of it that rethrows.
RecoveryFailedMutantRethrow(c, how) ==
    [c EXCEPT !.pc = "raised", !.failedBy = how]

RecoveryFailed(c, how) ==
    [c EXCEPT !.pc = "returned", !.ret = FailureEnvelope(c.self), !.failedBy = how]

\* callTool after rawResult arrived: result = rawResult, then normalized.
RecoverySucceeded(c, raw) ==
    [c EXCEPT !.pc = "returned", !.ret = Normalize(raw)]

\* The interceptor of invocation h, given message msg: the handler that keeps
\* the message.  A mutant of it without the else branch (-1: nobody).
RECURSIVE Route(_, _)
RouteMutantDrop(h, msg) ==
    IF h = ClientHandler THEN ClientHandler
    ELSE IF msg.id = calls[h].id THEN h
    ELSE -1

Route(h, msg) ==
    IF h = ClientHandler THEN ClientHandler
    ELSE IF msg.id = calls[h].id THEN h
    ELSE Route(calls[h].orig, msg)

BypassInit ==
    /\ nowMs = 1
    /\ transport \in {"stdio", "nosend"}
    /\ onmessage = ClientHandler
    /\ calls = [r \in CallIds |-> IdleCall(r)]
    /\ handed = <<>>

BypassIdle ==
    /\ nowMs = 1
    /\ transport = "stdio"
    /\ onmessage = ClientHandler
    /\ calls = [r \in CallIds |-> IdleCall(r)]
    /\ handed = <<>>

\* Time passes between two reads of Date.now().
BypassTick ==
    /\ nowMs < MaxNow
    /\ nowMs' = nowMs + 1
    /\ UNCHANGED <<transport, onmessage, calls, handed>>
    /\ UNCHANGED nonBypassVars

\* The subprocess channel closes: the client drops its _transport.
TransportLost ==
    /\ transport # "absent"
    /\ transport' = "absent"
    /\ UNCHANGED <<nowMs, onmessage, calls, handed>>
    /\ UNCHANGED nonBypassVars

\* callTool(name, params) reaches connection.client.callTool and awaits it.
CallTool(r) ==
    /\ calls[r].pc = "idle"
    /\ calls' = [calls EXCEPT ![r].pc = "conformant"]
    /\ UNCHANGED <<nowMs, transport, onmessage, handed>>
    /\ UNCHANGED nonBypassVars

\* The conformant call returns a validated result, which is normalized.
ConformantOk(r) ==
    /\ calls[r].pc = "conformant"
    /\ transport # "absent"
    /\ calls' = [calls EXCEPT ![r] = RecoverySucceeded(@, RawResult(r))]
    /\ UNCHANGED <<nowMs, transport, onmessage, handed>>
    /\ UNCHANGED nonBypassVars

\* The conformant call fails otherwise than by validation: callTool rethrows.
ConformantError(r) ==
    /\ calls[r].pc = "conformant"
    /\ calls' = [calls EXCEPT ![r].pc = "raised"]
    /\ UNCHANGED <<nowMs, transport, onmessage, handed>>
    /\ UNCHANGED nonBypassVars

\* The conformant call fails validation (ZodError): callToolDirectly runs up to
\* its promise.  Without a _transport it throws at once; without a send method
\* the promise is rejected; otherwise send(request) throws or the request is sent.
PendingOthers(r) == { q \in CallIds \ {r} : calls[q].pc = "direct" }

ValidationFailure(r, send) ==
    /\ calls[r].pc = "conformant"
    /\ LET armed == [calls[r] EXCEPT !.id = nowMs, !.orig = onmessage,
                                     !.installed = TRUE, !.timer = "armed",
                                     !.overlap = PendingOthers(r) # {}]
           how == IF transport = "stdio" THEN send ELSE transport
       IN  CASE how = "absent" ->
                  /\ calls' = [calls EXCEPT ![r] = RecoveryFailed(@, "send")]
                  /\ onmessage' = onmessage
             [] how = "nosend" ->
                  /\ calls' = [calls EXCEPT ![r] = RecoveryFailed(armed, "send")]
                  /\ onmessage' = r
             [] how = "throws" ->
                  /\ calls' = [calls EXCEPT
                                 ![r] = RecoveryFailed([armed EXCEPT !.timer = "cleared"], "send")]
                  /\ onmessage' = onmessage
             [] how = "sent" ->
                  /\ calls' = [q \in CallIds |->
                                 IF q = r THEN [armed EXCEPT !.pc = "direct", !.sent = TRUE]
                                 ELSE IF q \in PendingOthers(r)
                                 THEN [calls[q] EXCEPT !.overlap = TRUE]
                                 ELSE calls[q]]
                  /\ onmessage' = r
    /\ UNCHANGED <<nowMs, transport, handed>>
    /\ UNCHANGED nonBypassVars

\* The 30 s timer of invocation r fires: reject(new Error(...)).
Timeout(r) ==
    /\ calls[r].timer = "armed"
    /\ nowMs > calls[r].id
    /\ calls' = [calls EXCEPT ![r] =
                    IF @.pc = "direct"
                    THEN RecoveryFailed([@ EXCEPT !.timer = "fired"], "timeout")
                    ELSE [@ EXCEPT !.timer = "fired"]]
    /\ UNCHANGED <<nowMs, transport, onmessage, handed>>
    /\ UNCHANGED nonBypassVars

\* The messages the backend may send now: a reply (result or error) to a bypass
\* request it has not answered, or a message with another id (a reply to a
\* conformant call, a notification).
Unrelated == [id |-> 0, kind |-> "result", for |-> 0]

Incoming ==
    { [id |-> calls[r].id, kind |-> k, for |-> r] :
         r \in { q \in CallIds : calls[q].sent }, k \in {"result", "error"} }
    \cup {Unrelated}

\* transport.onmessage(msg)
Deliver(msg) ==
    /\ msg \in Incoming
    /\ transport # "absent"
    /\ LET keeper == Route(onmessage, msg)
           answered == [q \in CallIds |->
                          IF q = msg.for
                          THEN [calls[q] EXCEPT
                                  !.sent = FALSE,
                                  !.arrived = @ \/ (msg.kind = "result" /\ calls[q].pc = "direct")]
                          ELSE calls[q]]
       IN  IF keeper \in CallIds
           THEN /\ onmessage' = calls[keeper].orig
                /\ handed' = <<>>
                /\ calls' = [answered EXCEPT ![keeper] =
                               LET c == [@ EXCEPT !.timer = IF @ = "armed" THEN "cleared" ELSE @]
                               IN  IF c.pc # "direct" THEN c
                                   ELSE IF msg.kind = "error" THEN RecoveryFailed(c, "error")
                                   ELSE RecoverySucceeded(c, RawResult(msg.for))]
           ELSE /\ onmessage' = onmessage
                /\ handed' = IF keeper = ClientHandler THEN <<msg>> ELSE <<>>
                /\ calls' = answered
    /\ UNCHANGED <<nowMs, transport>>
    /\ UNCHANGED nonBypassVars

BypassNext ==
    \/ BypassTick
    \/ \E r \in CallIds : CallTool(r)
    \/ \E r \in CallIds : ConformantOk(r)
    \/ \E r \in CallIds : ConformantError(r)
    \/ \E r \in CallIds, send \in {"throws", "sent"} : ValidationFailure(r, send)
    \/ TransportLost
    \/ \E r \in CallIds : Timeout(r)
    \/ \E msg \in Incoming : Deliver(msg)

----------------------------------------------------------------------------
(***************************************************************************)
(* Frontend sessions: createSSEMiddleware, createStreamMiddleware and the  *)
(* two session phases of disconnectAll.  A session is its id; its registry *)
(* entry holds its transport and, for a bidirectional HTTP session, its    *)
(* server (the session's endpoint).  By the Transport interface, closing a *)
(* transport invokes its onclose callback.  The two registries have no     *)
(* state in common; a run is explored with the clients of one transport.   *)
(***************************************************************************)
MaxSessions == 1
MaxTriggers == 2

Sessions == 1..MaxSessions

NoSession == 0

\* activeStreamTransports.has(sid)
HasSession(sid) == \E i \in 1..Len(activeStreamTransports) : activeStreamTransports[i] = sid

\* activeStreamTransports.delete(sid)
DeleteSession(sid) == SelectSeq(activeStreamTransports, LAMBDA x : x # sid)

\* activeSSETransports.get(sessionId) is defined
HasSse(sid) == \E i \in 1..Len(activeSSETransports) : activeSSETransports[i] = sid

\* activeSSETransports.delete(transport.sessionId)
DeleteSse(sid) == SelectSeq(activeSSETransports, LAMBDA x : x # sid)

SessionsInit ==
    /\ issuedIds = {}
    /\ activeSSETransports = <<>>
    /\ closed = {}
    /\ sseClosing = {}
    /\ activeStreamTransports = <<>>
    /\ oncloseAwaiting = [s \in Sessions |-> 0]
    /\ serverCloseCalls = [s \in Sessions |-> 0]
    /\ closeOutcome = "none"
    /\ streamDiscPc = "none"
    /\ discCur = NoSession
    /\ discVisited = {}
    /\ lastStatus = 0
    /\ lastBody = "none"
    /\ forwarded = NoSession
    /\ lastRequest = "none"
    /\ initState = [r \in Sessions |-> "none"]
    /\ pairOf = [s \in Sessions |-> 0]

StreamInit ==
    /\ frontend \in {"sse", "http"}
    /\ SessionsInit

StreamIdle ==
    /\ frontend = "http"
    /\ SessionsInit

\* The process runs until disconnectAll has returned and the signal handler exits.
StreamRunning == streamDiscPc # "done"

\* The next session id the transport's generator yields.
FreshId(sid) ==
    /\ sid \notin issuedIds
    /\ \A other \in Sessions : other < sid => other \in issuedIds

\* The answer to a request: status, kind of body, and the session whose
\* transport got the request (NoSession when none did).
Respond(status, body, to) ==
    /\ lastStatus' = status
    /\ lastBody' = body
    /\ forwarded' = to

\* try { await server.close() } catch { console.error } in the "close" listener.
SseCloseCaught(rejects) == IF rejects THEN "logged" ELSE "ok"

\* try { await server.close() } catch { console.error } in transport.onclose, and
\* a mutant of it without the catch.
OncloseCaughtMutantUncaught(rejects) == IF rejects THEN "raised" ELSE "ok"

OncloseCaught(rejects) == IF rejects THEN "logged" ELSE "ok"

\* try { await transport.close(); await server.close() } catch { console.error }
\* in the loops of disconnectAll.
DisconnectCaught(rejects) == IF rejects THEN "logged" ELSE closeOutcome

(***************************************************************************)
(* Legacy push-stream sessions.                                            *)
(***************************************************************************)
\* GET /sse: the transport is created with its id; when the server cannot be
\* built the request ends with 500 and nothing is kept.  Otherwise the session
\* is registered and the "close" listener installed; a failure of
\* server.connect or of the first send is answered with 500.
SseConnect(sid, outcome) ==
    /\ StreamRunning
    /\ lastRequest' = "GET /sse"
    /\ frontend = "sse"
    /\ FreshId(sid)
    /\ IF outcome = "noserver"
       THEN /\ Respond(500, "text", NoSession)
            /\ UNCHANGED <<issuedIds, activeSSETransports>>
       ELSE /\ issuedIds' = issuedIds \cup {sid}
            /\ activeSSETransports' = Append(activeSSETransports, sid)
            /\ IF outcome = "connectfails"
               THEN Respond(500, "text", NoSession)
               ELSE Respond(200, "transport", sid)
    /\ UNCHANGED <<frontend, closed, sseClosing, httpVars, serverCloseCalls, closeOutcome,
                   discVars>>
    /\ UNCHANGED initVars
    /\ UNCHANGED nonStreamVars

\* The response of a legacy session emits "close" (the client went away, or the
\* transport was closed): the listener sets closed, calls server.close() and
\* suspends.  A response emits "close" once.
SseStreamClose(sid) ==
    /\ StreamRunning
    /\ frontend = "sse"
    /\ sid \in issuedIds
    /\ sid \notin closed
    /\ closed' = closed \cup {sid}
    /\ sseClosing' = sseClosing \cup {sid}
    /\ serverCloseCalls' = [serverCloseCalls EXCEPT ![sid] = @ + 1]
    /\ UNCHANGED <<frontend, issuedIds, activeSSETransports, httpVars, closeOutcome,
                   discVars, responseVars>>
    /\ UNCHANGED initVars
    /\ UNCHANGED nonStreamVars

\* The listener resumes after `await server.close()` and deletes the session.
SseCloseResume(sid, rejects) ==
    /\ StreamRunning
    /\ sid \in sseClosing
    /\ sseClosing' = sseClosing \ {sid}
    /\ closeOutcome' = SseCloseCaught(rejects)
    /\ activeSSETransports' = DeleteSse(sid)
    /\ UNCHANGED <<frontend, issuedIds, closed, httpVars, serverCloseCalls, discVars,
                   responseVars>>
    /\ UNCHANGED initVars
    /\ UNCHANGED nonStreamVars

(***************************************************************************)
(* Bidirectional HTTP sessions.                                            *)
(***************************************************************************)
\* transport.onclose up to its await: when the session is registered it calls
\* server.close() and suspends; the entry stays in the registry meanwhile.
Onclose(sid) ==
    IF HasSession(sid)
    THEN /\ serverCloseCalls' = [serverCloseCalls EXCEPT ![sid] = @ + 1]
         /\ oncloseAwaiting' = [oncloseAwaiting EXCEPT ![sid] = @ + 1]
    ELSE UNCHANGED <<serverCloseCalls, oncloseAwaiting>>

\* POST without a session id carrying an initialize request, up to its await:
\* the transport is created with its callbacks and the creation of the server
\* is awaited.  Requests are numbered in the order they arrive.
InitializeStart(r) ==
    /\ StreamRunning
    /\ frontend = "http"
    /\ initState[r] = "none"
    /\ \A q \in Sessions : q < r => initState[q] # "none"
    /\ initState' = [initState EXCEPT ![r] = "creating"]
    /\ UNCHANGED <<frontend, issuedIds, sseVars, httpVars, serverCloseCalls, closeOutcome,
                   discVars, responseVars, pairOf>>
    /\ UNCHANGED nonStreamVars

\* Whether the session-initialized callback of a request's transport fires: only
\* when the server was created and the transport handled the initialize request.
\* A mutant of it that fires whatever happened.
CallbackFiresMutantAlways(outcome) == TRUE

CallbackFires(outcome) == outcome = "initialized"

\* The rest of the initialize request r.  When the server cannot be created the
\* request ends with 500 as plain text; when the transport's handling throws,
\* the catch answers 500 with the JSON-RPC error object; otherwise the transport
\* generates the session id and the callback stores the request's own pair
\* under it.
Initialize(r, sid, outcome) ==
    /\ StreamRunning
    /\ lastRequest' = "POST /hama"
    /\ initState[r] = "creating"
    /\ FreshId(sid)
    /\ initState' = [initState EXCEPT ![r] = outcome]
    /\ IF CallbackFires(outcome)
       THEN /\ issuedIds' = issuedIds \cup {sid}
            /\ activeStreamTransports' = Append(activeStreamTransports, sid)
            /\ pairOf' = [pairOf EXCEPT ![sid] = r]
       ELSE UNCHANGED <<issuedIds, activeStreamTransports, pairOf>>
    /\ CASE outcome = "initialized" -> Respond(200, "transport", sid)
         [] outcome = "failed"      -> Respond(500, "text", NoSession)
         [] outcome = "rejected"    -> Respond(500, "envelope", NoSession)
    /\ UNCHANGED <<frontend, sseVars, oncloseAwaiting, serverCloseCalls, closeOutcome,
                   discVars>>
    /\ UNCHANGED nonStreamVars

\* Any other POST on /hama (hdr: its mcp-session-id, NoSession when it has none):
\* with a registered id the session's transport handles it; otherwise it is
\* answered 400 with the JSON-RPC error object.
Post(hdr, isInit) ==
    /\ StreamRunning
    /\ lastRequest' = "POST /hama"
    /\ ~(hdr = NoSession /\ isInit)
    /\ IF hdr # NoSession /\ HasSession(hdr)
       THEN Respond(200, "transport", hdr)
       ELSE Respond(400, "envelope", NoSession)
    /\ UNCHANGED <<frontend, issuedIds, sseVars, httpVars, serverCloseCalls, closeOutcome,
                   discVars>>
    /\ UNCHANGED initVars
    /\ UNCHANGED nonStreamVars

\* GET on /hama: 400 "No sessionId" or 400 "No active transport" as plain text;
\* with a registered id the session's transport handles it.
Get(hdr) ==
    /\ StreamRunning
    /\ lastRequest' = "GET /hama"
    /\ IF hdr # NoSession /\ HasSession(hdr)
       THEN Respond(200, "transport", hdr)
       ELSE Respond(400, "text", NoSession)
    /\ UNCHANGED <<frontend, issuedIds, sseVars, httpVars, serverCloseCalls, closeOutcome,
                   discVars>>
    /\ UNCHANGED initVars
    /\ UNCHANGED nonStreamVars

\* DELETE on /hama: 400 as plain text when the request has no id or the session
\* is not registered; otherwise the transport handles the request and closes,
\* which runs transport.onclose.
Delete(sid) ==
    /\ StreamRunning
    /\ lastRequest' = "DELETE /hama"
    /\ (sid # NoSession /\ HasSession(sid)) => serverCloseCalls[sid] < MaxTriggers
    /\ IF sid # NoSession /\ HasSession(sid)
       THEN /\ Onclose(sid)
            /\ Respond(200, "transport", sid)
       ELSE /\ Respond(400, "text", NoSession)
            /\ UNCHANGED <<serverCloseCalls, oncloseAwaiting>>
    /\ UNCHANGED <<frontend, issuedIds, sseVars, activeStreamTransports, closeOutcome,
                   discVars>>
    /\ UNCHANGED initVars
    /\ UNCHANGED nonStreamVars

\* The transport of a session goes down by itself and reports it through onclose.
Teardown(sid) ==
    /\ StreamRunning
    /\ frontend = "http"
    /\ sid \in issuedIds
    /\ serverCloseCalls[sid] < MaxTriggers
    /\ Onclose(sid)
    /\ UNCHANGED <<frontend, issuedIds, sseVars, activeStreamTransports, closeOutcome,
                   discVars, responseVars>>
    /\ UNCHANGED initVars
    /\ UNCHANGED nonStreamVars

\* A run of transport.onclose resumes after `await server.close()` (a rejection
\* is caught and logged) and deletes the session from the registry.
OncloseResume(sid, rejects) ==
    /\ StreamRunning
    /\ oncloseAwaiting[sid] > 0
    /\ oncloseAwaiting' = [oncloseAwaiting EXCEPT ![sid] = @ - 1]
    /\ closeOutcome' = OncloseCaught(rejects)
    /\ activeStreamTransports' = DeleteSession(sid)
    /\ UNCHANGED <<frontend, issuedIds, sseVars, serverCloseCalls, discVars, responseVars>>
    /\ UNCHANGED initVars
    /\ UNCHANGED nonStreamVars

(***************************************************************************)
(* disconnectAll: the legacy phase, then the bidirectional phase.          *)
(***************************************************************************)
\* The entry an iterator over a registry's values() yields next: the first one
\* in insertion order it has not been through (NoSession when it is exhausted).
NextOf(registry) ==
    LET left == { i \in 1..Len(registry) : registry[i] \notin discVisited }
    IN  IF left = {} THEN NoSession
        ELSE registry[CHOOSE i \in left : \A j \in left : i <= j]

NextSseEntry == NextOf(activeSSETransports)

NextEntry == NextOf(activeStreamTransports)

\* disconnectAll is called (SIGINT / SIGTERM).
StreamDisconnectStart ==
    /\ streamDiscPc = "none"
    /\ streamDiscPc' = "sseLoop"
    /\ UNCHANGED <<frontend, issuedIds, sseVars, httpVars, serverCloseCalls, closeOutcome,
                   discCur, discVisited, responseVars>>
    /\ UNCHANGED initVars
    /\ UNCHANGED nonStreamVars

\* The first loop takes its next entry and awaits transport.close(); a
\* rejection is caught and logged.
DiscSseClose(rejects) ==
    /\ streamDiscPc = "sseLoop"
    /\ NextSseEntry # NoSession
    /\ discVisited' = discVisited \cup {NextSseEntry}
    /\ closeOutcome' = DisconnectCaught(rejects)
    /\ UNCHANGED <<frontend, issuedIds, sseVars, httpVars, serverCloseCalls, streamDiscPc,
                   discCur, responseVars>>
    /\ UNCHANGED initVars
    /\ UNCHANGED nonStreamVars

\* The first iterator is exhausted: activeSSETransports.clear().
DiscSseClear ==
    /\ streamDiscPc = "sseLoop"
    /\ NextSseEntry = NoSession
    /\ activeSSETransports' = <<>>
    /\ discVisited' = {}
    /\ streamDiscPc' = "loop"
    /\ UNCHANGED <<frontend, issuedIds, closed, sseClosing, httpVars, serverCloseCalls,
                   closeOutcome, discCur, responseVars>>
    /\ UNCHANGED initVars
    /\ UNCHANGED nonStreamVars

\* The second loop takes its next entry and awaits transport.close(), which runs
\* transport.onclose; when transport.close() rejects, the catch logs it and the
\* loop goes on to the next entry without calling server.close().
DiscTransportClose(rejects) ==
    /\ streamDiscPc = "loop"
    /\ NextEntry # NoSession
    /\ IF rejects
       THEN /\ discVisited' = discVisited \cup {NextEntry}
            /\ UNCHANGED <<serverCloseCalls, oncloseAwaiting, streamDiscPc, discCur>>
       ELSE /\ Onclose(NextEntry)
            /\ discCur' = NextEntry
            /\ streamDiscPc' = "transportClosed"
            /\ UNCHANGED discVisited
    /\ closeOutcome' = DisconnectCaught(rejects)
    /\ UNCHANGED <<frontend, issuedIds, sseVars, activeStreamTransports, responseVars>>
    /\ UNCHANGED initVars
    /\ UNCHANGED nonStreamVars

\* The loop calls server.close() on the entry it holds and awaits it.
DiscServerClose ==
    /\ streamDiscPc = "transportClosed"
    /\ serverCloseCalls' = [serverCloseCalls EXCEPT ![discCur] = @ + 1]
    /\ streamDiscPc' = "serverClosing"
    /\ UNCHANGED <<frontend, issuedIds, sseVars, httpVars, closeOutcome, discCur,
                   discVisited, responseVars>>
    /\ UNCHANGED initVars
    /\ UNCHANGED nonStreamVars

\* server.close() settles (a rejection is caught and logged).
DiscServerClosed(rejects) ==
    /\ streamDiscPc = "serverClosing"
    /\ discVisited' = discVisited \cup {discCur}
    /\ discCur' = NoSession
    /\ streamDiscPc' = "loop"
    /\ closeOutcome' = DisconnectCaught(rejects)
    /\ UNCHANGED <<frontend, issuedIds, sseVars, httpVars, serverCloseCalls, responseVars>>
    /\ UNCHANGED initVars
    /\ UNCHANGED nonStreamVars

\* The iterator is exhausted: activeStreamTransports.clear(); no backend is
\* connected, so the rest of disconnectAll has nothing to close.
DiscClear ==
    /\ streamDiscPc = "loop"
    /\ NextEntry = NoSession
    /\ activeStreamTransports' = <<>>
    /\ streamDiscPc' = "done"
    /\ UNCHANGED <<frontend, issuedIds, sseVars, oncloseAwaiting, serverCloseCalls,
                   closeOutcome, discCur, discVisited, responseVars>>
    /\ UNCHANGED initVars
    /\ UNCHANGED nonStreamVars

(***************************************************************************)
(* Message submission of the legacy transport, and requests whose handling *)
(* by the session's transport throws.                                      *)
(***************************************************************************)
\* POST /messages passes its two tests: the request has a sessionId and the
\* registry has a transport for it.  A mutant of it without the second test.
SseAdmitMutantAnyId(hdr) == hdr # NoSession

SseAdmit(hdr) == hdr # NoSession /\ HasSse(hdr)

\* POST /messages?sessionId=hdr: 400 "No sessionId" or 400 "No active
\* transport" as plain text; otherwise the transport handles the message.
SsePost(hdr) ==
    /\ StreamRunning
    /\ lastRequest' = "POST /messages"
    /\ IF SseAdmit(hdr)
       THEN Respond(202, "transport", hdr)
       ELSE Respond(400, "text", NoSession)
    /\ UNCHANGED <<frontend, issuedIds, sseVars, httpVars, serverCloseCalls, closeOutcome,
                   discVars>>
    /\ UNCHANGED initVars
    /\ UNCHANGED nonStreamVars

\* POST /messages on a registered session whose handlePostMessage throws: the
\* await is not inside a try, the middleware's promise rejects.
SsePostFails(hdr) ==
    /\ StreamRunning
    /\ SseAdmit(hdr)
    /\ lastRequest' = "POST /messages"
    /\ Respond(0, "unhandled", hdr)
    /\ UNCHANGED <<frontend, issuedIds, sseVars, httpVars, serverCloseCalls, closeOutcome,
                   discVars>>
    /\ UNCHANGED initVars
    /\ UNCHANGED nonStreamVars

\* POST on /hama of a registered session whose handleRequest throws: the catch
\* of the POST branch answers 500 with the JSON-RPC error object.
PostFails(hdr) ==
    /\ StreamRunning
    /\ hdr # NoSession /\ HasSession(hdr)
    /\ lastRequest' = "POST /hama"
    /\ Respond(500, "envelope", hdr)
    /\ UNCHANGED <<frontend, issuedIds, sseVars, httpVars, serverCloseCalls, closeOutcome,
                   discVars>>
    /\ UNCHANGED initVars
    /\ UNCHANGED nonStreamVars

\* GET on /hama of a registered session whose handleRequest throws: the await
\* is not inside a try, the middleware's promise rejects.
GetFails(hdr) ==
    /\ StreamRunning
    /\ hdr # NoSession /\ HasSession(hdr)
    /\ lastRequest' = "GET /hama"
    /\ Respond(0, "unhandled", hdr)
    /\ UNCHANGED <<frontend, issuedIds, sseVars, httpVars, serverCloseCalls, closeOutcome,
                   discVars>>
    /\ UNCHANGED initVars
    /\ UNCHANGED nonStreamVars

\* DELETE on /hama of a registered session whose handleRequest throws: the
\* catch of the DELETE branch answers 500 with a plain text.
DeleteFails(hdr) ==
    /\ StreamRunning
    /\ hdr # NoSession /\ HasSession(hdr)
    /\ lastRequest' = "DELETE /hama"
    /\ Respond(500, "text", hdr)
    /\ UNCHANGED <<frontend, issuedIds, sseVars, httpVars, serverCloseCalls, closeOutcome,
                   discVars>>
    /\ UNCHANGED initVars
    /\ UNCHANGED nonStreamVars

Headers == Sessions \cup {NoSession}

StreamNext ==
    \/ \E sid \in Sessions, outcome \in {"noserver", "connectfails", "created"} :
          SseConnect(sid, outcome)
    \/ \E sid \in Sessions : SseStreamClose(sid)
    \/ \E sid \in Sessions, rejects \in BOOLEAN : SseCloseResume(sid, rejects)
    \/ \E hdr \in Headers : SsePost(hdr)
    \/ \E hdr \in Headers : SsePostFails(hdr)
    \/ \E r \in Sessions : InitializeStart(r)
    \/ \E r \in Sessions, sid \in Sessions, outcome \in {"failed", "rejected", "initialized"} :
          Initialize(r, sid, outcome)
    \/ \E hdr \in Headers, isInit \in BOOLEAN : Post(hdr, isInit)
    \/ \E hdr \in Headers : Get(hdr)
    \/ \E hdr \in Headers : Delete(hdr)
    \/ \E hdr \in Headers : PostFails(hdr)
    \/ \E hdr \in Headers : GetFails(hdr)
    \/ \E hdr \in Headers : DeleteFails(hdr)
    \/ \E sid \in Sessions : Teardown(sid)
    \/ \E sid \in Sessions, rejects \in BOOLEAN : OncloseResume(sid, rejects)
    \/ StreamDisconnectStart
    \/ \E rejects \in BOOLEAN : DiscSseClose(rejects)
    \/ DiscSseClear
    \/ \E rejects \in BOOLEAN : DiscTransportClose(rejects)
    \/ DiscServerClose
    \/ \E rejects \in BOOLEAN : DiscServerClosed(rejects)
    \/ DiscClear

----------------------------------------------------------------------------
\* The backend lifecycle: connect-all and disconnect-all, every listing free to fail.
ConnNext ==
    \/ ConnectAllStart
    \/ \E s \in Servers : ConnectFail(s)
    \/ \E s \in Servers : ConnectOk(s)
    \/ \E s \in Servers, failed \in SUBSET Kinds : Register(s, failed)
    \/ ConnectAllDone
    \/ DisconnectStart
    \/ \E s \in Servers : CloseSettled(s)
    \/ DisconnectDone

\* The lifecycle with frontend requests; the listings succeed.
RouteNext ==
    \/ ConnectAllStart
    \/ \E s \in Servers : ConnectFail(s)
    \/ \E s \in Servers : ConnectOk(s)
    \/ \E s \in Servers : Register(s, {})
    \/ ConnectAllDone
    \/ DisconnectStart
    \/ \E s \in Servers : CloseSettled(s)
    \/ DisconnectDone
    \/ \E kind \in Kinds, name \in CallNames : Call(kind, name)
    \/ \E kind \in Kinds : List(kind)

\* The lifecycle of two backends with notifications: listings free to fail at
\* connect and at refresh, capabilities free to change.
NotifyNext ==
    \/ ConnectAllStart
    \/ \E s \in Servers : ConnectFail(s)
    \/ \E s \in Servers : ConnectOk(s)
    \/ \E s \in Servers, failed \in SUBSET Kinds : Register(s, failed)
    \/ ConnectAllDone
    \/ \E s \in Servers, p \in Profiles : CapabilityChanged(s, p)
    \/ \E f \in refreshing, failed \in SUBSET Kinds : RefreshSettled(f, failed)
    \/ DisconnectStart
    \/ \E s \in Servers : CloseSettled(s)
    \/ DisconnectDone

\* The lifecycle with backends whose process may die once connected.
PeerNext ==
    \/ ConnectAllStart
    \/ \E s \in Servers : ConnectFail(s)
    \/ \E s \in Servers : ConnectOk(s)
    \/ \E s \in Servers : Register(s, {})
    \/ ConnectAllDone
    \/ \E s \in Servers : PeerFails(s)
    \/ DisconnectStart
    \/ \E s \in Servers : CloseSettled(s)
    \/ DisconnectDone

Init == ConnInit /\ StoreIdle /\ NormIdle /\ BypassIdle /\ StreamIdle

Next == ConnNext

Spec == Init /\ [][Next]_vars

SpecRoute == Init /\ [][RouteNext]_vars

NotifyInit ==
    /\ Init
    /\ willFail = {"s3"}
    /\ backendCaps["s1"].prompt = <<>>
    /\ backendCaps["s2"].resource = <<NameB>>

SpecNotify == NotifyInit /\ [][NotifyNext]_vars

SpecPeer == Init /\ [][PeerNext]_vars

\* One backend connects; its notifications may arrive while a refresh of it is
\* still awaiting its listings.
OverlapNext ==
    \/ ConnectAllStart
    \/ \E s \in Servers : ConnectFail(s)
    \/ \E s \in Servers : ConnectOk(s)
    \/ \E s \in Servers : Register(s, {})
    \/ ConnectAllDone
    \/ \E s \in Servers, p \in Profiles : CapabilityChanged(s, p)
    \/ \E s \in Servers, p \in Profiles : CapabilityChangedAgain(s, p)
    \/ \E f \in refreshing, failed \in SUBSET Kinds : RefreshSettled(f, failed)
    \/ DisconnectStart
    \/ \E s \in Servers : CloseSettled(s)
    \/ DisconnectDone

OverlapInit ==
    /\ Init
    /\ willFail = {"s2", "s3"}

SpecOverlap == OverlapInit /\ [][OverlapNext]_vars

StoreSpecInit == StoreInit /\ ConnIdle /\ NormIdle /\ BypassIdle /\ StreamIdle

SpecStore == StoreSpecInit /\ [][StoreNext]_vars

NormSpecInit == NormInit /\ ConnIdle /\ StoreIdle /\ BypassIdle /\ StreamIdle

SpecNorm == NormSpecInit /\ [][NormNext]_vars

BypassSpecInit == BypassInit /\ ConnIdle /\ StoreIdle /\ NormIdle /\ StreamIdle

SpecBypass == BypassSpecInit /\ [][BypassNext]_vars

StreamSpecInit == StreamInit /\ ConnIdle /\ StoreIdle /\ NormIdle /\ BypassIdle

SpecStream == StreamSpecInit /\ [][StreamNext]_vars

----------------------------------------------------------------------------
(***************************************************************************)
(* Claims about the connection manager and the routing layer.              *)
(***************************************************************************)
IsActive(s) == ConnIndex(s) # 0 /\ hamaConnections[ConnIndex(s)].active

\* The connections that are active and list name under kind, by registry position.
Matching(kind, name) ==
    { i \in 1..Len(hamaConnections) :
        hamaConnections[i].active /\ InList(CachedList(hamaConnections[i], kind), name) }

\* C1: connectAll isolation.  connectAllServers never raises, and once it has
\* completed (and no shutdown has begun) every backend whose own connect attempt
\* succeeds is registered and active, whatever subset of its siblings failed.
C1_ConnectAllIsolation ==
    /\ connectAllPc # "raised"
    /\ (connectAllPc \in {"done", "raised"} /\ discPc = "none")
          => \A s \in Servers \ willFail : IsActive(s)

\* C1 witness: connectAll has completed with some backends failed and the others
\* registered and active.
C1_Witness ==
    /\ connectAllPc = "done"
    /\ discPc = "none"
    /\ willFail # {}
    /\ \E s \in Servers \ willFail : IsActive(s)
    /\ \E s \in willFail : connPc[s] = "failed"

\* C2: qualified lookup.  A call named serverA:toolX, where serverA is active and
\* lists toolX, is forwarded to serverA with local name toolX.
C2_QualifiedLookup ==
    [][ \A kind \in Kinds, s \in Servers, l \in LocalNames :
          ( /\ IsActive(s)
            /\ InList(CachedList(hamaConnections[ConnIndex(s)], kind), l)
            /\ Call(kind, Qualified(s, l)) )
          => /\ lastCall'.outcome = "dispatched"
             /\ lastCall'.server = s
             /\ lastCall'.local = l ]_vars

\* C3: unqualified lookup.  A call whose name holds no separator and that some
\* active connection lists is forwarded, under that same name, to the first
\* such connection in registration order.
C3_UnqualifiedLookup ==
    [][ \A kind \in Kinds, name \in LocalNames :
          ( ~Includes(name) /\ Matching(kind, name) # {} /\ Call(kind, name) )
          => /\ lastCall'.outcome = "dispatched"
             /\ lastCall'.local = name
             /\ \E i \in Matching(kind, name) :
                   /\ \A j \in Matching(kind, name) : i <= j
                   /\ lastCall'.server = hamaConnections[i].serverName ]_vars

\* C3 witness: an unqualified call was forwarded while a later connection also
\* lists the name, and another while the registry holds an inactive connection.
C3_Witness ==
    /\ lastCall.kind # "none"
    /\ ~Includes(lastCall.name)
    /\ lastCall.outcome = "dispatched"
    /\ discPc = "none"
    /\ Cardinality(Matching(lastCall.kind, lastCall.name)) >= 2
    /\ hamaConnections[1].serverName # lastCall.server \/ Len(hamaConnections) = 3

----------------------------------------------------------------------------
(***************************************************************************)
(* Claims about the event log.                                             *)
(***************************************************************************)
\* The position in the history of the (first) recording of eventId.
RecordedAt(eventId) ==
    CHOOSE k \in 1..Len(recorded) :
        recorded[k].eventId = eventId /\ \A j \in 1..(k - 1) : recorded[j].eventId # eventId

\* The events recorded for eventId's stream after eventId, in recording order.
RecordedAfter(eventId) ==
    LET k == RecordedAt(eventId)
        SameStream(r) == r.streamId = recorded[k].streamId
        later == SelectSeq(SubSeq(recorded, k + 1, Len(recorded)), SameStream)
    IN  [i \in 1..Len(later) |-> [eventId |-> later[i].eventId, message |-> later[i].message]]

DistinctIds ==
    \A i, j \in 1..Len(recorded) : i # j => recorded[i].eventId # recorded[j].eventId

\* C4: event-log replay.  Replay from a stored id sends exactly the events
\* recorded for that id's stream after it, once each, in recording order (stated
\* for stream ids without an underscore and for histories whose ids are distinct).
C4_ReplayExact ==
    [][ \A lastEventId \in DOMAIN events :
          ( /\ DistinctIds
            /\ \A i \in 1..Len(events[lastEventId].streamId) :
                  events[lastEventId].streamId[i] # Underscore
            /\ ReplayEventsAfter(lastEventId) )
          => replayOut'.sent = RecordedAfter(lastEventId) ]_vars

----------------------------------------------------------------------------
(***************************************************************************)
(* Claims about the normalization.                                         *)
(***************************************************************************)
\* A canonical envelope: an object whose content is a non-empty array.
IsEnvelope(x) ==
    /\ x.t = "object"
    /\ "content" \in DOMAIN x.v
    /\ x.v["content"].t = "array"
    /\ x.v["content"].v # <<>>

\* C5: normalization is idempotent.  Normalizing a normalized reply returns it
\* unchanged, and a reply that already is a canonical envelope is returned as is.
C5_NormalizeIdempotent ==
    /\ Len(normOuts) >= 2 => normOuts[2] = normOuts[1]
    /\ (Len(normOuts) >= 1 /\ IsEnvelope(normIn)) => normOuts[1] = normIn

\* C5 witness: a reply that was not canonical has been normalized twice.
C5_Witness ==
    /\ Len(normOuts) >= 2
    /\ normIn.t = "object"
    /\ ~IsEnvelope(normIn)
    /\ normOuts[1] # normIn

----------------------------------------------------------------------------
(***************************************************************************)
(* Claims about the schema-bypass fallback.                                *)
(***************************************************************************)
\* The interceptors a message given to handler h can pass through.
RECURSIVE ChainOf(_)
ChainOf(h) == IF h = ClientHandler THEN {} ELSE {h} \cup ChainOf(calls[h].orig)

\* C6: a recovery that ends by timeout is rejected, and the timeout puts back
\* the interceptor that was installed before the recovery began.
C6_TimeoutRestores ==
    [][ \A r \in CallIds :
          (Timeout(r) /\ calls[r].pc = "direct" /\ onmessage = r)
          => /\ calls'[r].pc = "returned"
             /\ onmessage' = calls[r].orig ]_vars

\* C7: while a temporary interceptor is installed, a message whose id differs
\* from its recovery's id is not kept by it; and when the id is that of no
\* installed interceptor the client's own handler gets the message, unchanged
\* and once, and the delivery changes neither the slot nor any recovery.
C7_PassThrough ==
    [][ \A msg \in Incoming :
          (Deliver(msg) /\ onmessage # ClientHandler /\ msg.id # calls[onmessage].id)
          => /\ calls'[onmessage].pc = calls[onmessage].pc
             /\ calls'[onmessage].timer = calls[onmessage].timer
             /\ (\A q \in ChainOf(onmessage) : msg.id # calls[q].id)
                   => /\ handed' = <<msg>>
                      /\ onmessage' = onmessage
                      /\ \A q \in CallIds :
                            /\ calls'[q].pc = calls[q].pc
                            /\ calls'[q].ret = calls[q].ret
                            /\ calls'[q].timer = calls[q].timer ]_vars

\* C7 witness: an unrelated message went through the interceptor of a pending
\* recovery to the client's own handler.
C7_Witness ==
    /\ onmessage # ClientHandler
    /\ calls[onmessage].pc = "direct"
    /\ handed = <<Unrelated>>

\* One text item whose text names the validation failure.
IsFailureText(x) ==
    /\ IsEnvelope(x)
    /\ Len(x.v["content"].v) = 1
    /\ x.v["content"].v[1].v["type"] = Str(<<"text">>)
    /\ \E i \in 1..Len(x.v["content"].v[1].v["text"].v) :
          x.v["content"].v[1].v["text"].v[i] = "ZodError"

\* C8: recovery failure is absorbed.  When the recovery that follows a
\* validation failure fails (send failure, error reply, timeout), callTool has
\* returned the single text item describing the validation failure; it has not
\* raised.
C8_RecoveryFailureAbsorbed ==
    \A r \in CallIds :
        calls[r].failedBy # "none"
        => /\ calls[r].pc = "returned"
           /\ IsFailureText(calls[r].ret)

\* C8 witness: one recovery failed by timeout and another by error reply or
\* send failure, and both invocations returned.
C8_Witness ==
    \E r, q \in CallIds :
        /\ calls[r].failedBy = "timeout" /\ calls[r].pc = "returned"
        /\ calls[q].failedBy \in {"error", "send"} /\ calls[q].pc = "returned"

\* C9: exactly-once delivery of the right outcome.  An invocation whose recovery
\* saw its matching success reply arrive before its timeout returns the
\* normalized raw result of its own request (stated for recoveries that never
\* overlapped another one on the connection).
C9_OutcomeDelivered ==
    \A r \in CallIds :
        (calls[r].pc = "returned" /\ calls[r].arrived /\ ~calls[r].overlap)
        => calls[r].ret = Normalize(RawResult(r))

(***************************************************************************)
(* C10: for every bidirectional HTTP session, over any interleaving of      *)
(* DELETE, transport teardown and disconnectAll, server.close() is invoked  *)
(* on the session's endpoint at most once, and exactly once by the time     *)
(* the session is out of the registry.                                      *)
(***************************************************************************)
C10_ClosedExactlyOnce ==
    frontend = "http" =>
        \A sid \in Sessions :
            /\ serverCloseCalls[sid] <= 1
            /\ (sid \in issuedIds /\ ~HasSession(sid)) => serverCloseCalls[sid] = 1

\* C11: closing a session of either transport twice never raises, and from the
\* moment a close of the session has completed the session's id is absent from
\* its registry and stays absent.
C11_CloseTwiceAbsent ==
    [][ /\ closeOutcome' # "raised"
        /\ \A sid \in Sessions :
              /\ oncloseAwaiting'[sid] < oncloseAwaiting[sid] => ~HasSession(sid)'
              /\ (sid \in sseClosing /\ sid \notin sseClosing') => ~HasSse(sid)'
              /\ (sid \in issuedIds /\ ~HasSession(sid) /\ ~HasSse(sid))
                    => (~HasSession(sid) /\ ~HasSse(sid))' ]_vars

\* C11 witness: a session was closed twice, its second close failed and was
\* logged, both closes have completed and the session is out of the registry.
C11_Witness ==
    \E sid \in Sessions :
        /\ sid \in issuedIds
        /\ serverCloseCalls[sid] >= 2
        /\ oncloseAwaiting[sid] = 0
        /\ closeOutcome = "logged"
        /\ ~HasSession(sid)

\* The step answers 400 with the JSON-RPC error object, hands the request to no
\* transport and leaves every session as it was.
RejectedWithEnvelope ==
    /\ lastStatus' = 400
    /\ lastBody' = "envelope"
    /\ forwarded' = NoSession
    /\ UNCHANGED <<issuedIds, sseVars, httpVars, serverCloseCalls>>

\* C12: admission on the bidirectional HTTP transport.  A POST, GET or DELETE
\* that carries no session id (and is not an initialize request) or an id that
\* is not registered is answered 400 with the bad-request error envelope, is
\* forwarded to no transport and creates or changes no session.
C12_Admission ==
    [][ \A hdr \in Headers :
          (hdr = NoSession \/ ~HasSession(hdr))
          => /\ (\E isInit \in BOOLEAN : Post(hdr, isInit)) => RejectedWithEnvelope
             /\ Get(hdr) => RejectedWithEnvelope
             /\ Delete(hdr) => RejectedWithEnvelope ]_vars

----------------------------------------------------------------------------
(***************************************************************************)
(* Claims about registration and the unified listings.                     *)
(***************************************************************************)
\* The entries of a sequence, as a set.
Range(seq) == { seq[k] : k \in 1..Len(seq) }

\* C13: a backend whose connect attempt fails is absent from the registry;
\* every registered connection holds active = true (until shutdown) and the
\* three lists its listings returned; and a merged tool listing taken after
\* connect-all holds exactly the tools of the backends that connected, each
\* with its backend's name and its qualified name.
C13_RegisteredWhole ==
    /\ \A s \in willFail : ConnIndex(s) = 0
    /\ \A i \in 1..Len(hamaConnections) :
          LET conn == hamaConnections[i]
          IN  /\ discPc = "none" => conn.active
              /\ conn.serverName \notin willFail
              /\ conn.tools = backendCaps[conn.serverName].tool
              /\ conn.prompts = backendCaps[conn.serverName].prompt
              /\ conn.resources = backendCaps[conn.serverName].resource
    /\ (lastCall.kind = "tool" /\ lastCall.outcome = "listed" /\ discPc = "none")
          => /\ Range(lastCall.list) =
                   UNION { { [name |-> l, serverName |-> s, fullName |-> <<s, Sep>> \o l] :
                                l \in Range(backendCaps[s].tool) } :
                           s \in Servers \ willFail }
             /\ \A s \in Servers :
                   Len(SelectSeq(lastCall.list, LAMBDA e : e.serverName = s))
                      = IF s \in willFail THEN 0 ELSE Len(backendCaps[s].tool)

\* C13 witness: with one backend failed and the others connected, the merged
\* tool listing was taken and is not empty.
C13_Witness ==
    /\ lastCall.kind = "tool"
    /\ lastCall.outcome = "listed"
    /\ discPc = "none"
    /\ Cardinality(willFail) = 1
    /\ Len(lastCall.list) > 0
    /\ Len(hamaConnections) = Cardinality(Servers) - 1

\* The connections that are active, in registration order.
ActiveConns == SelectSeq(hamaConnections, LAMBDA c : c.active)

\* How many entries the active connections before the i-th one contribute.
RECURSIVE Offset(_, _)
Offset(kind, i) ==
    IF i = 1 THEN 0
    ELSE Offset(kind, i - 1) + Len(CachedList(ActiveConns[i - 1], kind))

\* C14: a unified listing is the concatenation of the cached lists of the active
\* connections only, in registration order and within a connection in its own
\* order, every entry carrying its serverName and the qualified name
\* serverName:localName, with nothing merged or dropped.
C14_UnifiedListing ==
    [][ \A kind \in Kinds :
          List(kind)
          => LET out == lastCall'.list
             IN  /\ Len(out) = Offset(kind, Len(ActiveConns) + 1)
                 /\ \A i \in 1..Len(ActiveConns) :
                       \A k \in 1..Len(CachedList(ActiveConns[i], kind)) :
                          LET e == out[Offset(kind, i) + k]
                              l == CachedList(ActiveConns[i], kind)[k]
                              s == ActiveConns[i].serverName
                          IN  /\ e.serverName = s
                              /\ IF kind = "resource"
                                 THEN e.uri = l /\ e.fullUri = <<s, Sep>> \o l
                                 ELSE e.name = l /\ e.fullName = <<s, Sep>> \o l ]_vars

\* C14 witness: a listing taken with three connections registered, not in the
\* order of their names, holds the same local name from two backends.
C14_Witness ==
    /\ lastCall.kind \in {"tool", "prompt"}
    /\ lastCall.outcome = "listed"
    /\ Len(hamaConnections) = 3
    /\ hamaConnections[1].serverName # "s1"
    /\ \E i, j \in 1..Len(lastCall.list) :
          /\ i < j
          /\ lastCall.list[i].name = lastCall.list[j].name
          /\ lastCall.list[i].serverName # lastCall.list[j].serverName

\* The part of a name before its first separator, and everything after it.
BeforeFirstSep(name) == SubSeq(name, 1, FirstSepFrom(name, 1) - 1)
AfterFirstSep(name) == SubSeq(name, FirstSepFrom(name, 1) + 1, Len(name))

\* C15: a name that holds the separator is split at its first occurrence only:
\* the part before it is the target backend, and everything after it, further
\* separators included, is forwarded unchanged as the local name.
C15_SplitAtFirstSeparator ==
    [][ ( /\ lastCall' # lastCall
          /\ lastCall'.outcome = "dispatched"
          /\ Includes(lastCall'.name) )
        => /\ <<lastCall'.server>> = BeforeFirstSep(lastCall'.name)
           /\ lastCall'.local = AfterFirstSep(lastCall'.name) ]_vars

\* C16: resolution failures.  An unqualified name that no active connection
\* lists fails with NotFound; a qualified name whose backend is not registered
\* or not active fails with ServerUnavailable; in both cases no backend is
\* called and the registry is left as it was.
C16_ResolutionFailures ==
    [][ (lastCall' # lastCall /\ lastCall'.outcome # "listed")
        => LET kind == lastCall'.kind
               name == lastCall'.name
           IN  /\ (~Includes(name) /\ Matching(kind, name) = {})
                     => lastCall'.outcome = "NotFound"
               /\ (Includes(name) /\ ~\E s \in Servers :
                                         <<s>> = BeforeFirstSep(name) /\ IsActive(s))
                     => lastCall'.outcome = "ServerUnavailable"
               /\ lastCall'.outcome \in {"NotFound", "ServerUnavailable"}
                     => /\ DOMAIN lastCall' = {"kind", "name", "outcome"}
                        /\ hamaConnections' = hamaConnections ]_vars

\* C16 witness: a qualified call named a backend that is registered but no
\* longer active and failed with ServerUnavailable.
C16_Witness ==
    /\ lastCall.kind \in Kinds
    /\ lastCall.outcome = "ServerUnavailable"
    /\ \E s \in RegisteredNames :
          /\ <<s>> = BeforeFirstSep(lastCall.name)
          /\ ~hamaConnections[ConnIndex(s)].active

----------------------------------------------------------------------------
(***************************************************************************)
(* Claims about the shapes the normalization handles.                      *)
(***************************************************************************)
\* The positions in the priority list of the fields the reply has with a
\* non-null value.
PresentIdx(result) ==
    { i \in 1..Len(TextFields) : Prop(result, TextFields[i]).t \notin {"undefined", "null"} }

FirstPresent(result) ==
    CHOOSE i \in PresentIdx(result) : \A j \in PresentIdx(result) : i <= j

\* C17: for an object reply that is not already canonical, the text comes from
\* the first field of the priority list that is present and not null: the
\* string itself, or the pretty-printed value when it is structured; the text
\* of a lower-priority field is never used instead.
C17_FieldPriority ==
    ( /\ Len(normOuts) >= 1
      /\ normIn.t = "object"
      /\ ~IsEnvelope(normIn)
      /\ PresentIdx(normIn) # {} )
    => LET i   == FirstPresent(normIn)
           val == Prop(normIn, TextFields[i])
       IN  /\ val.t = "string" => normOuts[1] = Envelope(val.v)
           /\ (val.t \in {"array", "object"} /\ Serializable(val))
                 => normOuts[1] = Envelope(StringifyAt(val, 0))
           /\ val.t \in {"number", "boolean"}
                 => \A j \in PresentIdx(normIn) :
                       (j > i /\ Prop(normIn, TextFields[j]).t = "string")
                          => normOuts[1] # Envelope(Prop(normIn, TextFields[j]).v)

\* C18: a string reply becomes one text item with the string verbatim, and a
\* number or boolean reply one text item with its textual representation,
\* the empty string, 0 and false included.
C18_ScalarVerbatim ==
    Len(normOuts) >= 1
    => /\ normIn.t = "string" => normOuts[1] = Envelope(normIn.v)
       /\ normIn.t \in {"number", "boolean"} => normOuts[1] = Envelope(StringOf(normIn))

\* C19: an object reply with none of the twelve recognized fields becomes one
\* text item holding the pretty-printed serialization of the whole object.
C19_FullObjectFallback ==
    ( /\ Len(normOuts) >= 1
      /\ normIn.t = "object"
      /\ \A i \in 1..Len(TextFields) : TextFields[i] \notin DOMAIN normIn.v
      /\ Serializable(normIn) )
    => normOuts[1] = Envelope(StringifyAt(normIn, 0))

\* C19 witness: { "foo": "bar" } has been normalized to its pretty-printed text.
C19_Witness ==
    /\ Len(normOuts) >= 1
    /\ normIn = Obj([k \in {"foo"} |-> Str(<<"bar">>)])
    /\ normOuts[1] = Envelope(<<"{", "\n", "  ", "\"foo\"", ": ", "\"", "bar", "\"", "\n", "}">>)

\* { type: "text", text: <string> }
IsTextItem(x) ==
    /\ x.t = "object"
    /\ {"type", "text"} \subseteq DOMAIN x.v
    /\ x.v["type"].t = "string"
    /\ x.v["type"].v = <<"text">>
    /\ x.v["text"].t = "string"

\* C20: the normalization is total.  Whatever the reply, one whose
\* serialization fails included, the result is not an error but a canonical
\* envelope whose content is a non-empty sequence of text items.
C20_NormalizeTotal ==
    \A n \in 1..Len(normOuts) :
        /\ normOuts[n].t # "raised"
        /\ IsEnvelope(normOuts[n])
        /\ \A k \in 1..Len(normOuts[n].v["content"].v) :
              IsTextItem(normOuts[n].v["content"].v[k])

----------------------------------------------------------------------------
(***************************************************************************)
(* Claims about discovery, refresh and the active flag.                    *)
(***************************************************************************)
\* What the three cached lists of backend s hold after listings of which those
\* in failed were rejected: [] for these, the listing's result for the others.
ListsAfter(conn, s, failed) ==
    \A kind \in Kinds :
        CachedList(conn, kind) = IF kind \in failed THEN <<>> ELSE backendCaps[s][kind]

\* C21: at connect and at refresh, a listing that fails empties the cached list
\* of its own category only; the other categories hold what their listings
\* returned.  The connection is registered active at connect, and a refresh
\* leaves it registered with its flag as it was.
C21_PerCategoryFailure ==
    [][ \A s \in Servers, failed \in SUBSET Kinds :
          /\ Register(s, failed)
                => /\ ConnIndex(s)' # 0
                   /\ hamaConnections'[ConnIndex(s)'].active
                   /\ ListsAfter(hamaConnections'[ConnIndex(s)'], s, failed)
          /\ \A f \in InFlight(s) :
                (RefreshSettled(f, failed) /\ ConnIndex(s) # 0)
                => /\ ConnIndex(s)' = ConnIndex(s)
                   /\ hamaConnections'[ConnIndex(s)].active = hamaConnections[ConnIndex(s)].active
                   /\ ListsAfter(hamaConnections'[ConnIndex(s)], s, failed) ]_vars

\* C21 witness: backend s1, whose capabilities changed, has been refreshed with
\* its tool listing failed: the tools are empty, the prompts are the new ones.
C21_Witness ==
    /\ refreshCount >= 1
    /\ refreshing = {}
    /\ ConnIndex("s1") # 0
    /\ backendCaps["s1"].prompt # <<>>
    /\ backendCaps["s1"].tool # <<>>
    /\ hamaConnections[ConnIndex("s1")].active
    /\ hamaConnections[ConnIndex("s1")].tools = <<>>
    /\ hamaConnections[ConnIndex("s1")].prompts = backendCaps["s1"].prompt
    /\ hamaConnections[ConnIndex("s1")].resources = backendCaps["s1"].resource

\* C22: a connection's active flag is true once it is registered, false from
\* the moment its peer is closed or has failed, and never true again once false.
C22_ActiveFlag ==
    /\ [](\A i \in 1..Len(hamaConnections) :
             LET conn == hamaConnections[i]
             IN  /\ (discPc = "none" /\ conn.serverName \notin peerDown) => conn.active
                 /\ conn.serverName \in peerDown => ~conn.active)
    /\ [][ \A s \in RegisteredNames :
             (~hamaConnections[ConnIndex(s)].active /\ ConnIndex(s)' # 0)
                => ~hamaConnections'[ConnIndex(s)'].active ]_vars

\* C23: disconnectAll sets a connection's flag to false before it invokes that
\* connection's close, and when it completes every connection is inactive and
\* the registry is empty.
C23_DisconnectAll ==
    [][ /\ \A s \in closePending' :
              ConnIndex(s)' # 0 /\ ~hamaConnections'[ConnIndex(s)'].active
        /\ DisconnectDone
              => /\ \A i \in 1..Len(hamaConnections) : ~hamaConnections[i].active
                 /\ hamaConnections' = <<>> ]_vars

\* C29: the refresh that a backend's capability-change notification starts
\* writes that backend's connection only: the registry keeps its entries in
\* their order, every flag keeps its value, and every other connection keeps
\* its three lists.
C29_RefreshFrame ==
    [][ (refreshing' # refreshing /\ refreshing' \subseteq refreshing)
        => LET s == (CHOOSE x \in refreshing : x \notin refreshing').server
           IN  /\ Len(hamaConnections') = Len(hamaConnections)
               /\ \A i \in 1..Len(hamaConnections) :
                     /\ hamaConnections'[i].serverName = hamaConnections[i].serverName
                     /\ hamaConnections'[i].active = hamaConnections[i].active
                     /\ hamaConnections[i].serverName # s
                           => hamaConnections'[i] = hamaConnections[i] ]_vars

\* C29 witness: two backends are registered; s1, whose capabilities changed, has
\* been refreshed and caches its new prompts, s2 caches what it listed at connect.
C29_Witness ==
    /\ refreshCount >= 1
    /\ refreshing = {}
    /\ RegisteredNames = {"s1", "s2"}
    /\ backendCaps["s1"].prompt # <<>>
    /\ hamaConnections[ConnIndex("s1")].prompts = backendCaps["s1"].prompt
    /\ hamaConnections[ConnIndex("s2")].resources = <<NameB>>

----------------------------------------------------------------------------
(***************************************************************************)
(* Claims about the release of sessions and the frontend requests.         *)
(***************************************************************************)
\* C24: once a session has been closed (it was registered and has been
\* deregistered by its own close, or disconnectAll has completed), its endpoint
\* has been closed, also when a step of the close failed.
C24_ReleasedOnEveryPath ==
    \A sid \in issuedIds :
        \/ streamDiscPc = "done"
        \/ (streamDiscPc = "none" /\ ~HasSession(sid) /\ ~HasSse(sid))
        => serverCloseCalls[sid] >= 1

C26_CatchAll ==
    /\ lastBody # "unhandled"
    /\ lastStatus = 500 => lastBody = "envelope"

\* C28: registration is deferred to the session-initialized callback.  While an
\* initialize request awaits its server, and for ever when building the server
\* or handling the request failed, no id is registered for it; a registered id
\* maps to the pair of the one request whose callback fired for it, and keeps
\* that pair as long as it is registered.
C28_DeferredRegistration ==
    /\ [](\A sid \in Sessions :
             HasSession(sid)
                => /\ sid \in issuedIds
                   /\ pairOf[sid] # 0
                   /\ initState[pairOf[sid]] = "initialized"
                   /\ \A other \in Sessions :
                         (HasSession(other) /\ other # sid) => pairOf[other] # pairOf[sid])
    /\ [](\A r \in Sessions :
             initState[r] # "initialized"
                => \A sid \in Sessions : ~(HasSession(sid) /\ pairOf[sid] = r))
    /\ [][ \A sid \in Sessions :
             (HasSession(sid) /\ HasSession(sid)') => pairOf'[sid] = pairOf[sid] ]_vars

\* C28 witness: the callback of an initialize request has fired and its id is
\* registered with that request's pair.
C28_Witness ==
    \E sid \in Sessions :
        /\ HasSession(sid)
        /\ pairOf[sid] # 0
        /\ initState[pairOf[sid]] = "initialized"
        /\ lastRequest = "POST /hama"
        /\ forwarded = sid

----------------------------------------------------------------------------
\* C27: at every moment at most one bypass recovery is in flight on the
\* connection's transport (its interceptor installed, its promise not settled).
C27_OneRecoveryInFlight ==
    Cardinality({ r \in CallIds : calls[r].pc = "direct" /\ calls[r].installed }) <= 1

----------------------------------------------------------------------------
\* C30: an event id encodes its stream.  The stream id parsed back from the id
\* of a stored event is the stream id the event was stored under.
C30_EventIdEncodesStream ==
    \A eventId \in DOMAIN events :
        GetStreamIdFromEventId(eventId) = events[eventId].streamId

----------------------------------------------------------------------------
\* The recoveries whose promise is not settled.
Pending == { q \in CallIds : calls[q].pc = "direct" }

\* C31: overlapping recoveries.  While two bypass recoveries with different
\* request ids are pending on the connection, a reply to one of them reaches
\* that recovery (it settles, and the client's own handler does not get the
\* reply), whichever of the two replies comes first; and when that leaves no
\* recovery pending, each one settled by a reply, the interceptor slot holds
\* the client's own handler again.
C31_OverlappingRecoveries ==
    [][ \A msg \in Incoming :
          ( /\ Deliver(msg)
            /\ msg.for \in Pending
            /\ calls[msg.for].overlap
            /\ \A q \in Pending \ {msg.for} : calls[q].id # msg.id )
          => /\ calls'[msg.for].pc # "direct"
             /\ handed' = <<>>
             /\ ( \A q \in CallIds :
                     /\ calls'[q].pc # "direct"
                     /\ calls'[q].overlap => calls'[q].failedBy \in {"none", "error"} )
                   => onmessage' = ClientHandler ]_vars

----------------------------------------------------------------------------
\* C32: overlapping refreshes.  When the most recently started refresh of a
\* connection started while an earlier one was still awaiting its listings,
\* then once no refresh of the connection is in flight its three cached lists
\* are the lists which that most recently started refresh obtained.
C32_LatestRefreshWins ==
    \A s \in Servers :
        ( /\ ConnIndex(s) # 0
          /\ latestRefresh[s].overlapped
          /\ InFlight(s) = {} )
        => /\ latestRefresh[s].done
           /\ \A kind \in Kinds :
                 CachedList(hamaConnections[ConnIndex(s)], kind) = latestRefresh[s].lists[kind]

----------------------------------------------------------------------------
\* The qualified and the local name of an entry of a unified listing.
FullOf(kind, e) == IF kind = "resource" THEN e.fullUri ELSE e.fullName

LocalOf(kind, e) == IF kind = "resource" THEN e.uri ELSE e.name

\* C33: listing/lookup round trip.  A call of callTool, getPrompt or
\* readResource whose name is the qualified name of an entry that the unified
\* listing of that kind returns in the same state is dispatched to the entry's
\* backend with the entry's local name (its uri for a resource).
C33_ListingRoundTrip ==
    [][ ( /\ lastCall' # lastCall
          /\ lastCall'.outcome # "listed" )
        => LET kind == lastCall'.kind
               listed == GetUnified(kind)
           IN  \A i \in 1..Len(listed) :
                  FullOf(kind, listed[i]) = lastCall'.name
                  => /\ lastCall'.outcome = "dispatched"
                     /\ lastCall'.server = listed[i].serverName
                     /\ lastCall'.local = LocalOf(kind, listed[i]) ]_vars

====
